---- MODULE Spec2Model ----
(***************************************************************************)
(* The StackerDB client of stacks-signer (src/stacks-signer/src/client/    *)
(* stackerdb.rs): the slot-version cache, the publish loop of              *)
(* send_message_bytes_with_retry, the batched read of get_messages, the    *)
(* fetch operations built on it, and the publish loop in front of a store  *)
(* that versions each slot.                                                *)
(***************************************************************************)
EXTENDS Integers, Sequences, FiniteSets, TLC

\* ------------------------------------------------------------------ bounds

\* Stand-in for u32::MAX: the width of a slot version, scaled down so that the
\* saturation point of saturating_add is reached within the other bounds.
U32_MAX == 12
\* Publish calls per behaviour.
MaxCalls == 2
\* Put attempts (iterations of the publish loop) per publish call.
MaxAttempts == 3
\* Failed put_chunk requests the retry policy sees per put attempt.
MaxPutTries == 1
\* Stand-in for u64::MAX: the width of a reward cycle, scaled down.
U64_MAX == 3

\* ------------------------------------------------------------ option values

None == <<>>
Some(x) == <<x>>
IsSome(o) == o # <<>>
Unwrap(o) == o[1]

\* ------------------------------------------------------------------- maps

\* HashMap::new()
EmptyMap == [k \in {} |-> 0]
\* HashMap::insert: overwrites
Insert(m, k, v) == [x \in (DOMAIN m) \cup {k} |-> IF x = k THEN v ELSE m[x]]

\* -------------------------------------------------------------- categories

\* MessageSlotID::ALL, the closed set of message categories (spec section 3).
MessageSlotID_ALL ==
    {"DkgBegin", "DkgPublicShares", "DkgPrivateBegin", "DkgPrivateShares",
     "DkgEndBegin", "DkgEnd", "Transactions", "EncryptedSignerState"}

\* The categories the modelled callers publish to.
PublishIds == {"DkgBegin", "Transactions"}
\* The slot ids a client can be constructed with.
SignerSlotIds == {3}
\* The payloads handed to send_message_bytes_with_retry.
MessageBytes == {<<7>>}

\* --------------------------------------------------------- acknowledgments

\* StackerDBErrorCodes: the rejection codes of the store.
DataAlreadyExists == "DataAlreadyExists"
NoSuchSlot == "NoSuchSlot"
\* StackerDBErrorCodes::from_code: code 0 is the version conflict, 1 is
\* no-such-slot, anything else maps to no known rejection kind.
from_code(code) ==
    CASE code = 0 -> Some(DataAlreadyExists)
      [] code = 1 -> Some(NoSuchSlot)
      [] OTHER -> None

\* The versions a store reports in the metadata of an acknowledgment.
MetaVersions == {0, 4, U32_MAX}
\* The rejection codes a store sends: conflict, no-such-slot, unknown.
Codes == {0, 1, 7}

\* StackerDBChunkAckData {accepted, reason, metadata, code}
Ack(accepted, reason, metadata, code) ==
    [accepted |-> accepted, reason |-> reason, metadata |-> metadata,
     code |-> code]
Meta(v) == Some([slot_version |-> v])

\* The acknowledgments a store answers a put with: accepted ones (bare, as in
\* the test, and one carrying every optional field), version conflicts with
\* and without metadata, no-such-slot and unknown codes, and rejections that
\* carry no code.
Acks ==
    {Ack(TRUE, None, None, None), Ack(TRUE, Some("stale"), Meta(4), Some(0))}
    \cup {Ack(FALSE, Some("stale"), md, Some(0)) :
            md \in {None} \cup {Meta(v) : v \in MetaVersions}}
    \cup {Ack(FALSE, r, None, Some(1)) : r \in {None, Some("no slot")}}
    \cup {Ack(FALSE, Some("bad"), Meta(4), Some(7))}
    \cup {Ack(FALSE, Some("busy"), md, None) : md \in {None, Meta(4)}}

\* The errors a session's put_chunk / get_latest_chunks can end in.
SessionErrors == {"transport", "fatal"}

\* The epochs a client can be constructed with.
RewardCycles == {1}

\* u64::wrapping_add(1)
wrapping_add_1(v) == (v + 1) % (U64_MAX + 1)

\* MessageSlotID::stacker_db_contract: the address of the store instance of
\* a category in an epoch, a function of the two (spec section 3).
stacker_db_contract(m, rc) == [msg_id |-> m, reward_cycle |-> rc]
\* StackerDBSession::new(host, contract): a session is known by the store
\* instance it talks to.
StackerDBSession_new(contract) == contract

\* ------------------------------------------------------------------ state

VARIABLES
    signers_message_stackerdb_sessions, \* category -> session
    next_transaction_session,           \* the look-ahead Transactions session
    stacks_private_key,                 \* the signing key
    slot_versions,                      \* category -> (slot id -> u32)
    signer_slot_id,                     \* this client's slot id
    reward_cycle,                       \* this client's epoch
    pc,             \* where the client is: idle, or inside a publish call
    msg_id,         \* publish: the category argument
    message_bytes,  \* publish: the payload argument
    slot_version,   \* publish: the loop's local slot_version
    chunk,          \* publish: the chunk of the current attempt
    chunk_ack,      \* publish: the acknowledgment of the latest attempt
    result,         \* what the latest finished call returned
    attempts,       \* put attempts issued by the current publish call
    put_tries,      \* put_chunk requests that failed in the current attempt
    last_err,       \* the error of the latest failed put_chunk request
    prev,           \* the previous attempt of this call: version and ack
    put_session,    \* publish: the session the current attempt goes to
    read_req,       \* the latest read: slot ids, epoch, the store read from
    read_result,    \* what the latest read returned
    fetch_req,      \* the latest fetch: operation, signer ids, and what the
                    \* store instances hold
    fetch_result,   \* what the latest fetch returned
    fetch_log,      \* the get_latest_chunks requests the latest fetch
                    \* issued: session and slot ids, in order
    stackerdb,      \* the store: category -> (slot id -> stored version)
    stackerdb_init, \* the store when the client was constructed
    stackerdb_chunks, \* the store: session -> (slot id -> stored bytes)
    hist            \* per category: publish calls so far (calls), whether
                    \* each made exactly one attempt and had it accepted
                    \* (clean), the version of the latest acknowledged
                    \* attempt (last), and whether a conflict correction
                    \* has since set the cache below it (lowered)

client_vars ==
    <<signers_message_stackerdb_sessions, next_transaction_session,
      stacks_private_key, signer_slot_id, reward_cycle>>
call_vars ==
    <<pc, msg_id, message_bytes, slot_version, chunk, chunk_ack, result,
      attempts, put_tries, last_err, prev, put_session, hist>>
read_vars == <<read_req, read_result>>
fetch_vars == <<fetch_req, fetch_result, fetch_log>>
store_vars == <<stackerdb, stackerdb_init, stackerdb_chunks>>
vars == <<client_vars, slot_versions, call_vars, read_vars, fetch_vars, store_vars>>

\* ------------------------------------------------------------ results

NoResult == [kind |-> "none", ack |-> None, err |-> <<>>]
Ok(ack) == [kind |-> "ok", ack |-> Some(ack), err |-> <<>>]
Err(e) == [kind |-> "err", ack |-> None, err |-> e]

OkMessages(ms) == [kind |-> "ok", ack |-> None, err |-> <<>>, messages |-> ms]
NoRequest == [slot_ids |-> <<>>, reward_cycle |-> 0, store |-> <<>>]

\* Ok(v) of a fetch, the fetch nobody made, the store nobody modelled.
OkValue(v) == [kind |-> "ok", ack |-> None, err |-> <<>>, value |-> v]
NoFetchRequest == [op |-> "none", signer_ids |-> <<>>, world |-> <<>>]
NoStore == <<>>
NoChunk == [slot_id |-> 0, slot_version |-> 0, data |-> <<>>, sig |-> None]

\* ------------------------------------------------- publish: the pure steps

\* Faulty variant: the addition wraps around instead of saturating.
saturating_add_1_Wrapping(v) == (v + 1) % (U32_MAX + 1)

\* u32::saturating_add(1)
saturating_add_1(v) == IF v + 1 > U32_MAX THEN U32_MAX ELSE v + 1

\* The version an absent cache entry stands for on the first attempt.
UnseenVersion == 1

\* Faulty variant: an unseen slot is written with the seeded value 0.
SlotVersionOf_SeedValue(sv, m, s) ==
    IF m \in DOMAIN sv /\ s \in DOMAIN sv[m] THEN sv[m][s] ELSE 0

\* The loop's slot_version: the cached value, or 1 for an unseen slot.
SlotVersionOf(sv, m, s) ==
    IF m \in DOMAIN sv /\ s \in DOMAIN sv[m] THEN sv[m][s] ELSE UnseenVersion

\* Faulty variant: an absent entry is seeded with the version to be sent.
SeedCache_One(sv, m, s) ==
    IF m \in DOMAIN sv
    THEN IF s \in DOMAIN sv[m] THEN sv ELSE Insert(sv, m, Insert(sv[m], s, 1))
    ELSE Insert(sv, m, Insert(EmptyMap, s, 1))

\* The cache after the lookup: an absent entry is seeded with 0.
SeedCache(sv, m, s) ==
    IF m \in DOMAIN sv
    THEN IF s \in DOMAIN sv[m] THEN sv ELSE Insert(sv, m, Insert(sv[m], s, 0))
    ELSE Insert(sv, m, Insert(EmptyMap, s, 0))

\* Faulty variant: every chunk is addressed to slot 1.
NewChunk_FirstSlot(s, v, data) ==
    [slot_id |-> 1, slot_version |-> v, data |-> data, sig |-> None]

\* Faulty variant: the chunk is built without the payload.
NewChunk_EmptyPayload(s, v, data) ==
    [slot_id |-> s, slot_version |-> v, data |-> <<>>, sig |-> None]

\* StackerDBChunkData::new
NewChunk(s, v, data) ==
    [slot_id |-> s, slot_version |-> v, data |-> data, sig |-> None]

\* StackerDBChunkData::sign: a signature over slot id, version and payload.
Sign(c, key) ==
    [c EXCEPT !.sig = Some(<<key, c.slot_id, c.slot_version, c.data>>)]

\* Faulty variant: the cache entry is left at the attempted version.
AdvancedVersion_NoAdvance(v) == v

\* Faulty variant: the advance wraps in the width of a slot version.
AdvancedVersion_Wrapping(v) == (v + 1) % (U32_MAX + 1)

\* The value the cache entry is advanced to after an attempt with version v.
AdvancedVersion(v) == saturating_add_1(v)

\* Faulty variant: the entry of the slot is advanced under every category
\* the cache knows.
AdvanceCache_EveryCategory(sv, m, s, v) ==
    [x \in (DOMAIN sv) \cup {m} |->
        Insert(IF x \in DOMAIN sv THEN sv[x] ELSE EmptyMap, s, AdvancedVersion(v))]

\* versions.insert(slot_id, slot_version.saturating_add(1))
AdvanceCache(sv, m, s, v) == Insert(sv, m, Insert(sv[m], s, AdvancedVersion(v)))

\* send_request: how the closure classifies a session error for the retry
\* policy. Every error is wrapped as transient.
ErrorClass(e) == "transient"

\* Faulty variant: every acknowledgment is taken for an acceptance.
Accepted_Always(ack) == TRUE

\* Faulty variant: a rejection that carries no code is taken for an acceptance.
Accepted_OrNoCode(ack) == ack.accepted \/ ~IsSome(ack.code)

\* if chunk_ack.accepted
Accepted(ack) == ack.accepted

\* Faulty variant: the version-conflict code is not recognised.
IsConflict_Never(ack) == FALSE

\* What the loop does with a rejected acknowledgment: retry or return.
IsConflict(ack) ==
    IsSome(ack.code) /\ from_code(Unwrap(ack.code)) = Some(DataAlreadyExists)

\* Faulty variant: a code that maps to no known rejection kind is retried.
RejectionOutcome_UnknownRetried(ack) ==
    IF IsSome(ack.code)
    THEN IF IsConflict(ack) \/ from_code(Unwrap(ack.code)) = None
         THEN "retry" ELSE "reject"
    ELSE "retry"

\* Faulty variant: a version conflict ends the call like any other code.
RejectionOutcome_ConflictTerminal(ack) ==
    IF IsSome(ack.code) THEN "reject" ELSE "retry"

RejectionOutcome(ack) ==
    IF IsSome(ack.code)
    THEN IF IsConflict(ack) THEN "retry" ELSE "reject"
    ELSE "retry"

\* Faulty variant: without metadata the version is incremented once more.
ConflictVersion_IncrementTwice(v, ack) ==
    IF IsSome(ack.metadata) THEN Unwrap(ack.metadata).slot_version ELSE v + 1

\* Faulty variant: the metadata of a conflict is ignored.
ConflictVersion_IgnoreMetadata(v, ack) == v

\* The slot_version after a conflict: the store's, when it reports one.
ConflictVersion(v, ack) ==
    IF IsSome(ack.metadata) THEN Unwrap(ack.metadata).slot_version ELSE v

\* Faulty variant: the reason of the acknowledgment is dropped.
RejectReason_Fixed(ack) == "No reason given"

\* The reason text of PutChunkRejected.
RejectReason(ack) ==
    IF IsSome(ack.reason) THEN Unwrap(ack.reason) ELSE "No reason given"

\* An acknowledgment after which the loop issues another attempt.
Loops(ack) == ~Accepted(ack) /\ RejectionOutcome(ack) = "retry"

\* The retry policy (retry_with_exponential_backoff): an error classified
\* transient is retried, any other is returned to the caller at once.
RetryPolicyRetries(class) == class = "transient"

\* ------------------------------------------------------------- envelopes

\* StackerDBMessage: a DKG packet, a transaction list or an encrypted state.
Packet(p) == [kind |-> "Packet", body |-> <<p>>]
Transactions(txs) == [kind |-> "Transactions", body |-> txs]
EncryptedSignerState(bytes) == [kind |-> "EncryptedSignerState", body |-> bytes]
\* SignerMessage {reward_cycle, message}
SignerMessage(rc, message) == [reward_cycle |-> rc, message |-> message]

\* The type prefix of each payload variant on the wire.
TypePrefix(kind) ==
    CASE kind = "Packet" -> 0
      [] kind = "Transactions" -> 1
      [] kind = "EncryptedSignerState" -> 2

\* StackerDBMessage::consensus_serialize: the type prefix, then the body (a
\* packet is one unit, a list is its length and its elements).
serialize_message(message) ==
    IF message.kind = "Packet"
    THEN <<TypePrefix(message.kind)>> \o message.body
    ELSE <<TypePrefix(message.kind), Len(message.body)>> \o message.body

\* SignerMessage::serialize_to_vec: the epoch, then the payload.
serialize_to_vec(signer_message) ==
    <<signer_message.reward_cycle>> \o serialize_message(signer_message.message)

\* read_next::<StackerDBMessage>: None when the bytes end early or the type
\* prefix is unknown; bytes after the message are left unread.
read_next_message(data) ==
    IF Len(data) < 2 THEN None
    ELSE IF data[1] = TypePrefix("Packet")
    THEN Some(Packet(data[2]))
    ELSE IF data[1] \in {TypePrefix("Transactions"), TypePrefix("EncryptedSignerState")}
    THEN IF Len(data) < 2 + data[2] THEN None
         ELSE LET body == SubSeq(data, 3, 2 + data[2])
              IN IF data[1] = TypePrefix("Transactions")
                 THEN Some(Transactions(body))
                 ELSE Some(EncryptedSignerState(body))
    ELSE None

\* read_next::<SignerMessage>: the epoch, then the payload.
read_next_signer_message(data) ==
    IF Len(data) < 1 THEN None
    ELSE LET message == read_next_message(Tail(data))
         IN IF IsSome(message)
            THEN Some(SignerMessage(data[1], Unwrap(message)))
            ELSE None

\* The epochs envelopes in a store are tagged with.
Epochs == {1, 2}
\* The envelopes found in a store.
StoredMessages ==
    {SignerMessage(e, m) :
        e \in Epochs,
        m \in {Packet(1), Transactions(<<>>), Transactions(<<1, 2>>),
               EncryptedSignerState(<<2>>)}}
\* The byte buffers found in a store: the empty buffer, every envelope
\* whole, the envelopes of epoch 1 cut short by one unit, and an envelope
\* with an unknown type prefix.
StoredBytes ==
    {<<>>, <<1, 3>>}
    \cup {serialize_to_vec(sm) : sm \in StoredMessages}
    \cup {SubSeq(serialize_to_vec(sm), 1, Len(serialize_to_vec(sm)) - 1) :
            sm \in {x \in StoredMessages : x.reward_cycle = 1}}
\* The slots of a store, and what a slot holds: nothing, or a byte buffer.
StoreSlots == {1, 2, 3}
Stores == [StoreSlots -> {None} \cup {Some(b) : b \in StoredBytes}]
\* The slot-id lists the modelled callers read.
SlotIdLists == {<<1>>, <<1, 2, 3>>, <<3, 1>>, <<2, 2>>}

\* StackerDBSession::get_latest_chunks: the latest chunk of each requested
\* slot, in request order.
get_latest_chunks(store, slot_ids) ==
    [i \in 1..Len(slot_ids) |-> store[slot_ids[i]]]

\* ------------------------------------------------------------ get_messages

\* Faulty variant: the epoch of a decoded envelope is not compared.
EpochMatches_Any(message, rc) == TRUE

\* message.reward_cycle != reward_cycle => continue
EpochMatches(message, rc) == message.reward_cycle = rc

\* Faulty variant: a surviving envelope is put after the later ones.
RECURSIVE get_messages_from_Reversed(_, _, _)
get_messages_from_Reversed(chunks, rc, i) ==
    IF i > Len(chunks) THEN <<>>
    ELSE LET data == chunks[i]
             rest == get_messages_from_Reversed(chunks, rc, i + 1)
         IN IF ~IsSome(data) THEN rest
            ELSE LET message == read_next_signer_message(Unwrap(data))
                 IN IF ~IsSome(message) THEN rest
                    ELSE IF ~EpochMatches(Unwrap(message), rc) THEN rest
                    ELSE rest \o <<Unwrap(message)>>

\* The loop over the returned chunks, from chunk i on: an absent chunk, an
\* undecodable chunk and an envelope of another epoch are skipped.
RECURSIVE get_messages_from(_, _, _)
get_messages_from(chunks, rc, i) ==
    IF i > Len(chunks) THEN <<>>
    ELSE LET data == chunks[i]
             rest == get_messages_from(chunks, rc, i + 1)
         IN IF ~IsSome(data) THEN rest
            ELSE LET message == read_next_signer_message(Unwrap(data))
                 IN IF ~IsSome(message) THEN rest
                    ELSE IF ~EpochMatches(Unwrap(message), rc) THEN rest
                    ELSE <<Unwrap(message)>> \o rest

\* Faulty variant: a chunk that does not decode fails the whole read.
get_messages_FailOnBadChunk(chunks, rc) ==
    IF \E i \in 1..Len(chunks) :
          IsSome(chunks[i]) /\ ~IsSome(read_next_signer_message(Unwrap(chunks[i])))
    THEN Err(<<"DeserializeError">>)
    ELSE OkMessages(get_messages_from(chunks, rc, 1))

\* get_messages, given the chunks the request returned.
get_messages(chunks, rc) == OkMessages(get_messages_from(chunks, rc, 1))

\* ------------------------------------------------------------------- Init

\* Faulty variant: sessions are created for the DKG categories only.
new_sessions_DkgOnly(rc) ==
    [m \in MessageSlotID_ALL \ {"Transactions", "EncryptedSignerState"} |->
        StackerDBSession_new(stacker_db_contract(m, rc))]

\* for msg_id in MessageSlotID::ALL { signers_message_stackerdb_sessions.insert(..) }
new_sessions(rc) ==
    [m \in MessageSlotID_ALL |->
        StackerDBSession_new(stacker_db_contract(m, rc))]

\* StackerDB::new for a reward cycle of the given set: one session per
\* category, the look-ahead session, an empty cache.
NewIn(cycles) ==
    /\ reward_cycle \in cycles
    /\ signers_message_stackerdb_sessions = new_sessions(reward_cycle)
    /\ next_transaction_session =
          StackerDBSession_new(
              stacker_db_contract("Transactions", wrapping_add_1(reward_cycle)))
    /\ stacks_private_key = "sk"
    /\ slot_versions = EmptyMap
    /\ signer_slot_id \in SignerSlotIds

\* StackerDB::new for the reward cycles of the modelled callers.
New == NewIn(RewardCycles)

\* No call has been made; ids are the categories the callers publish to.
NoCallTo(ids) ==
    /\ pc = "idle"
    /\ msg_id = "DkgBegin"
    /\ message_bytes = <<>>
    /\ slot_version = 0
    /\ chunk = NoChunk
    /\ chunk_ack = None
    /\ result = NoResult
    /\ attempts = 0
    /\ put_tries = 0
    /\ last_err = None
    /\ prev = None
    /\ put_session = None
    /\ read_result = NoResult
    /\ fetch_result = NoResult
    /\ fetch_log = <<>>
    /\ hist = [m \in ids |->
                 [calls |-> 0, clean |-> TRUE, last |-> None, lowered |-> FALSE]]

\* No call has been made by the modelled callers.
NoCall == NoCallTo(PublishIds)

\* Nothing is read or fetched, and the store is left out.
NoReads == read_req = NoRequest /\ fetch_req = NoFetchRequest
StoreLeftOut ==
    stackerdb = NoStore /\ stackerdb_init = NoStore /\ stackerdb_chunks = NoStore

Init == New /\ NoCall /\ NoReads /\ StoreLeftOut

TotalCalls ==
    hist["DkgBegin"].calls + hist["Transactions"].calls
      + (IF "EncryptedSignerState" \in DOMAIN hist
         THEN hist["EncryptedSignerState"].calls ELSE 0)

\* ---------------------------------------------------------------- publish

\* send_message_bytes_with_retry is called: let slot_id = self.signer_slot_id
Publish(m, bytes) ==
    /\ pc = "idle"
    /\ TotalCalls < MaxCalls
    /\ pc' = "loop"
    /\ msg_id' = m
    /\ message_bytes' = bytes
    /\ result' = NoResult
    /\ attempts' = 0
    /\ put_tries' = 0
    /\ last_err' = None
    /\ prev' = None
    /\ put_session' = None
    /\ chunk_ack' = None
    /\ slot_version' = 0
    /\ chunk' = NoChunk
    /\ hist' = [hist EXCEPT ![m].calls = @ + 1]
    /\ UNCHANGED <<client_vars, read_vars, fetch_vars, store_vars,
                   slot_versions>>

\* The head of the loop: look the version up (seeding the cache), build the
\* chunk, sign it, find the session.
LoopTop(sign_ok) ==
    /\ pc = "loop"
    /\ LET v == SlotVersionOf(slot_versions, msg_id, signer_slot_id)
           c == NewChunk(signer_slot_id, v, message_bytes)
       IN /\ slot_version' = v
          /\ slot_versions' = SeedCache(slot_versions, msg_id, signer_slot_id)
          /\ IF ~sign_ok
             THEN \* chunk.sign(..)? returns the signing error
                  /\ chunk' = c
                  /\ pc' = "idle"
                  /\ result' = Err(<<"SigningError">>)
                  /\ hist' = [hist EXCEPT ![msg_id].clean = FALSE]
                  /\ UNCHANGED <<attempts, put_tries, last_err, put_session>>
             ELSE IF msg_id \notin DOMAIN signers_message_stackerdb_sessions
             THEN \* panic!("FATAL: would loop forever ...")
                  /\ chunk' = Sign(c, stacks_private_key)
                  /\ pc' = "panicked"
                  /\ UNCHANGED <<result, hist, attempts, put_tries, last_err,
                                 put_session>>
             ELSE /\ chunk' = Sign(c, stacks_private_key)
                  /\ put_session' = Some(signers_message_stackerdb_sessions[msg_id])
                  /\ pc' = "put"
                  /\ attempts' = IF attempts < MaxAttempts
                                  THEN attempts + 1 ELSE attempts
                  /\ put_tries' = 0
                  /\ last_err' = None
                  /\ hist' = IF attempts > 0
                             THEN [hist EXCEPT ![msg_id].clean = FALSE]
                             ELSE hist
                  /\ UNCHANGED result
    /\ UNCHANGED <<client_vars, read_vars, fetch_vars, store_vars,
                   msg_id, message_bytes, chunk_ack, prev>>

\* session.put_chunk(&chunk) ends in an error e: the closure classifies it
\* and the retry policy retries it or returns it.
PutFail(e) ==
    /\ pc = "put"
    /\ put_tries < MaxPutTries
    /\ last_err' = Some(e)
    /\ put_tries' = put_tries + 1
    /\ IF RetryPolicyRetries(ErrorClass(e))
       THEN UNCHANGED <<pc, result, hist>>
       ELSE /\ pc' = "idle"
            /\ result' = Err(<<e>>)
            /\ hist' = [hist EXCEPT ![msg_id].clean = FALSE]
    /\ UNCHANGED <<client_vars, read_vars, fetch_vars, store_vars,
                   slot_versions, msg_id, message_bytes,
                   slot_version, chunk, chunk_ack, attempts, prev,
                   put_session>>

\* The retry policy gives up on a request that keeps failing.
PutGiveUp ==
    /\ pc = "put"
    /\ put_tries > 0
    /\ pc' = "idle"
    /\ result' = Err(<<"RetryTimeout">>)
    /\ hist' = [hist EXCEPT ![msg_id].clean = FALSE]
    /\ UNCHANGED <<client_vars, read_vars, fetch_vars, store_vars,
                   slot_versions, msg_id, message_bytes,
                   slot_version, chunk, chunk_ack, attempts, put_tries,
                   last_err, prev, put_session>>

\* session.put_chunk(&chunk) returns an acknowledgment: the cache entry is
\* advanced whatever the acknowledgment says.
ReceiveAck(ack) ==
    /\ pc = "put"
    /\ chunk_ack' = Some(ack)
    /\ IF msg_id \in DOMAIN slot_versions
       THEN /\ slot_versions' =
                  AdvanceCache(slot_versions, msg_id, signer_slot_id, slot_version)
            /\ pc' = "acked"
            /\ UNCHANGED result
       ELSE /\ pc' = "idle"
            /\ result' = Err(<<"NotConnected">>)
            /\ UNCHANGED slot_versions
    /\ hist' = [hist EXCEPT ![msg_id].clean = @ /\ ack.accepted,
                             ![msg_id].last = Some(slot_version),
                             ![msg_id].lowered = FALSE]
    /\ UNCHANGED <<client_vars, read_vars, fetch_vars,
                   msg_id, message_bytes, slot_version, chunk,
                   attempts, put_tries, last_err, prev, put_session>>

\* An acknowledgment of the store, whatever it is; an acknowledgment that
\* makes the call loop is drawn only while the call may make another attempt.
PutAck(ack) ==
    /\ attempts < MaxAttempts \/ ~Loops(ack)
    /\ ReceiveAck(ack)
    /\ UNCHANGED store_vars

\* The rest of the iteration: return the accepted acknowledgment, correct
\* the cache on a version conflict and loop, or return the rejection.
HandleAck ==
    /\ pc = "acked"
    /\ LET ack == Unwrap(chunk_ack)
       IN IF Accepted(ack)
          THEN /\ pc' = "idle"
               /\ result' = Ok(ack)
               /\ UNCHANGED <<slot_version, slot_versions, prev, hist>>
          ELSE IF RejectionOutcome(ack) = "reject"
          THEN /\ pc' = "idle"
               /\ result' = Err(<<"PutChunkRejected", RejectReason(ack)>>)
               /\ UNCHANGED <<slot_version, slot_versions, prev, hist>>
          ELSE /\ pc' = "loop"
               /\ prev' = Some([slot_version |-> chunk.slot_version, ack |-> ack])
               /\ IF IsConflict(ack)
                  THEN LET v == ConflictVersion(slot_version, ack)
                       IN /\ slot_version' = v
                          /\ slot_versions' =
                                AdvanceCache(slot_versions, msg_id, signer_slot_id, v)
                          /\ hist' = [hist EXCEPT ![msg_id].lowered =
                                                    v < chunk.slot_version]
                  ELSE UNCHANGED <<slot_version, slot_versions, hist>>
               /\ UNCHANGED result
    /\ UNCHANGED <<client_vars, read_vars, fetch_vars, store_vars,
                   msg_id, message_bytes, chunk, chunk_ack,
                   attempts, put_tries, last_err, put_session>>

Next ==
    \/ \E m \in PublishIds, bytes \in MessageBytes : Publish(m, bytes)
    \/ \E sign_ok \in BOOLEAN : LoopTop(sign_ok)
    \/ \E e \in SessionErrors : PutFail(e)
    \/ PutGiveUp
    \/ \E ack \in Acks : PutAck(ack)
    \/ HandleAck

Spec == Init /\ [][Next]_vars

\* ------------------------------------------------------------------- reads

\* The reads the modelled callers make: the slots asked for, the epoch
\* asked for and what the session's store holds.
Requests == [slot_ids : SlotIdLists, reward_cycle : Epochs, store : Stores]

\* get_messages: one batched request, then the decode-and-filter loop.
GetMessages ==
    /\ pc = "idle"
    /\ read_result = NoResult
    /\ read_result' =
          get_messages(get_latest_chunks(read_req.store, read_req.slot_ids),
                       read_req.reward_cycle)
    /\ UNCHANGED <<client_vars, slot_versions, call_vars, read_req, fetch_vars,
                   store_vars>>

\* get_messages when get_latest_chunks keeps ending in the error e: the
\* closure classifies it; the retry policy retries it and gives up, or
\* returns it.
GetMessagesFail(e) ==
    /\ pc = "idle"
    /\ read_result = NoResult
    /\ read_result' = IF RetryPolicyRetries(ErrorClass(e))
                      THEN Err(<<"RetryTimeout">>)
                      ELSE Err(<<e>>)
    /\ UNCHANGED <<client_vars, slot_versions, call_vars, read_req, fetch_vars,
                   store_vars>>

NextRead ==
    \/ GetMessages
    \/ \E e \in SessionErrors : GetMessagesFail(e)

\* A read of a freshly constructed client, for every request.
InitRead ==
    /\ New /\ NoCall /\ StoreLeftOut
    /\ read_req \in Requests
    /\ fetch_req = NoFetchRequest

SpecRead == InitRead /\ [][NextRead]_vars

\* ----------------------------------------------------------------- fetches

\* What the store instance behind a session holds, slot by slot; an instance
\* nothing was written to holds nothing.
EmptyStore == [s \in StoreSlots |-> None]
StoreAt(world, session) ==
    IF session \in DOMAIN world THEN world[session] ELSE EmptyStore

\* A get_latest_chunks request, and what an operation returned together with
\* the requests it issued.
Request(session, slot_ids) == [session |-> session, slot_ids |-> slot_ids]
Outcome(r, log) == [result |-> r, log |-> log]

\* Self::get_messages(session, &slot_ids, reward_cycle)
session_get_messages(world, session, slot_ids, rc) ==
    get_messages(get_latest_chunks(StoreAt(world, session), slot_ids), rc)

\* Faulty variant: the end category is read before the end-begin category.
PacketSlots_EndFirst ==
    <<"DkgBegin", "DkgPublicShares", "DkgPrivateBegin", "DkgPrivateShares",
      "DkgEnd", "DkgEndBegin">>

\* let packet_slots = &[...]
PacketSlots ==
    <<"DkgBegin", "DkgPublicShares", "DkgPrivateBegin", "DkgPrivateShares",
      "DkgEndBegin", "DkgEnd">>

\* Faulty variant: the batch is given up at the first payload that is not a
\* packet.
RECURSIVE PacketsOf_StopAtOther(_)
PacketsOf_StopAtOther(messages) ==
    IF messages = <<>> THEN <<>>
    ELSE LET message == Head(messages).message
         IN IF message.kind = "Packet"
            THEN <<message.body[1]>> \o PacketsOf_StopAtOther(Tail(messages))
            ELSE <<>>

\* for signer_message in signer_messages: a payload that is not a packet is
\* skipped, a packet is pushed.
RECURSIVE PacketsOf(_)
PacketsOf(messages) ==
    IF messages = <<>> THEN <<>>
    ELSE LET message == Head(messages).message
         IN (IF message.kind = "Packet" THEN <<message.body[1]>> ELSE <<>>)
            \o PacketsOf(Tail(messages))

\* get_dkg_packets from the c-th packet slot on, with the packets pushed and
\* the requests issued so far.
RECURSIVE get_dkg_packets_from(_, _, _, _, _, _, _)
get_dkg_packets_from(sessions, world, slot_ids, rc, c, packets, log) ==
    IF c > Len(PacketSlots) THEN Outcome(OkValue(packets), log)
    ELSE IF PacketSlots[c] \notin DOMAIN sessions
    THEN Outcome(Err(<<"NotConnected">>), log)
    ELSE LET session == sessions[PacketSlots[c]]
             signer_messages == session_get_messages(world, session, slot_ids, rc)
             issued == Append(log, Request(session, slot_ids))
         IN IF signer_messages.kind # "ok" THEN Outcome(signer_messages, issued)
            ELSE get_dkg_packets_from(sessions, world, slot_ids, rc, c + 1,
                     packets \o PacketsOf(signer_messages.messages), issued)

get_dkg_packets(sessions, rc, world, signer_ids) ==
    get_dkg_packets_from(sessions, world, signer_ids, rc, 1, <<>>, <<>>)

\* for signer_message in signer_messages: a payload that is not a
\* transaction list is skipped, a list is appended whole.
RECURSIVE TransactionsOf(_)
TransactionsOf(messages) ==
    IF messages = <<>> THEN <<>>
    ELSE LET message == Head(messages).message
         IN (IF message.kind = "Transactions" THEN message.body ELSE <<>>)
            \o TransactionsOf(Tail(messages))

get_transactions(world, transactions_session, signer_ids, rc) ==
    LET signer_messages ==
            session_get_messages(world, transactions_session, signer_ids, rc)
    IN Outcome(IF signer_messages.kind # "ok" THEN signer_messages
               ELSE OkValue(TransactionsOf(signer_messages.messages)),
               <<Request(transactions_session, signer_ids)>>)

\* Faulty variant: every slot of the store is requested.
get_current_transactions_AllSlots(sessions, slot_id, rc, world) ==
    IF "Transactions" \notin DOMAIN sessions
    THEN Outcome(Err(<<"NotConnected">>), <<>>)
    ELSE get_transactions(world, sessions["Transactions"], <<1, 2, 3>>, rc)

get_current_transactions(sessions, slot_id, rc, world) ==
    IF "Transactions" \notin DOMAIN sessions
    THEN Outcome(Err(<<"NotConnected">>), <<>>)
    ELSE get_transactions(world, sessions["Transactions"], <<slot_id>>, rc)

\* Faulty variant: the envelopes are filtered by the client's own epoch.
get_next_transactions_CurrentEpoch(next_session, rc, world, signer_ids) ==
    get_transactions(world, next_session, signer_ids, rc)

\* Faulty variant: the epoch filtered on saturates instead of wrapping.
get_next_transactions_SaturatingEpoch(next_session, rc, world, signer_ids) ==
    get_transactions(world, next_session, signer_ids,
                     IF rc < U64_MAX THEN rc + 1 ELSE U64_MAX)

get_next_transactions(next_session, rc, world, signer_ids) ==
    get_transactions(world, next_session, signer_ids, wrapping_add_1(rc))

\* Faulty variant: whatever the chunk decodes to is taken for the state.
IsEncryptedSignerState_AnyVariant(message) == TRUE

\* let StackerDBMessage::EncryptedSignerState(state) = .. else
IsEncryptedSignerState(message) == message.kind = "EncryptedSignerState"

get_encrypted_signer_state(sessions, world, signer_id) ==
    IF "EncryptedSignerState" \notin DOMAIN sessions
    THEN Outcome(Err(<<"NotConnected">>), <<>>)
    ELSE LET state_session == sessions["EncryptedSignerState"]
             chunks == get_latest_chunks(StoreAt(world, state_session), <<signer_id>>)
             log == <<Request(state_session, <<signer_id>>)>>
         IN IF Len(chunks) = 0
            THEN Outcome(Err(<<"UnexpectedResponseFormat">>), log)
            ELSE LET data == chunks[Len(chunks)]
                 IN IF ~IsSome(data) THEN Outcome(OkValue(None), log)
                    ELSE IF Unwrap(data) = <<>> THEN Outcome(OkValue(None), log)
                    ELSE LET message == read_next_message(Unwrap(data))
                         IN IF ~IsSome(message)
                            THEN \* read_next(..)? returns the decode error
                                 Outcome(Err(<<"DeserializeError">>), log)
                            ELSE IF ~IsEncryptedSignerState(Unwrap(message))
                            THEN Outcome(OkValue(None), log)
                            ELSE Outcome(OkValue(Some(Unwrap(message).body)), log)

\* What the packet slots of the modelled store hold: nothing; two packets; a
\* transaction list and a packet; a packet of another epoch, undecodable
\* bytes and a third packet.
DkgStores ==
    {EmptyStore,
     [s \in StoreSlots |->
        CASE s = 1 -> Some(serialize_to_vec(SignerMessage(1, Packet(1))))
          [] s = 2 -> Some(serialize_to_vec(SignerMessage(1, Packet(2))))
          [] OTHER -> None],
     [s \in StoreSlots |->
        CASE s = 1 -> Some(serialize_to_vec(SignerMessage(1, Transactions(<<1, 2>>))))
          [] s = 2 -> Some(serialize_to_vec(SignerMessage(1, Packet(1))))
          [] OTHER -> None],
     [s \in StoreSlots |->
        CASE s = 1 -> Some(serialize_to_vec(SignerMessage(2, Packet(2))))
          [] s = 2 -> Some(<<1, 3>>)
          [] OTHER -> Some(serialize_to_vec(SignerMessage(1, Packet(3))))]}
DkgWorlds ==
    [{stacker_db_contract(PacketSlots[c], rc) :
        c \in 1..Len(PacketSlots), rc \in RewardCycles} -> DkgStores]

\* What the Transactions slots of the modelled stores hold: nothing or a
\* list of either epoch; two stores of oddities (a packet, an empty buffer
\* or undecodable bytes, an empty list); and a store with a packet in front
\* of two lists.
TxChunks ==
    {None,
     Some(serialize_to_vec(SignerMessage(1, Transactions(<<1, 2>>)))),
     Some(serialize_to_vec(SignerMessage(2, Transactions(<<3>>)))),
     Some(serialize_to_vec(SignerMessage(2, Transactions(<<4, 5>>))))}
TxStores ==
    [StoreSlots -> TxChunks]
    \cup {[s \in StoreSlots |->
             CASE s = 1 -> Some(serialize_to_vec(SignerMessage(1, Packet(1))))
               [] s = 2 -> Some(<<>>)
               [] OTHER -> Some(serialize_to_vec(SignerMessage(1, Transactions(<<>>))))],
          [s \in StoreSlots |->
             CASE s = 1 -> Some(serialize_to_vec(SignerMessage(2, Packet(1))))
               [] s = 2 -> Some(<<1, 3>>)
               [] OTHER -> Some(serialize_to_vec(SignerMessage(2, Transactions(<<>>))))],
          [s \in StoreSlots |->
             CASE s = 1 -> Some(serialize_to_vec(SignerMessage(2, Packet(1))))
               [] s = 2 -> Some(serialize_to_vec(SignerMessage(2, Transactions(<<4, 5>>))))
               [] OTHER -> Some(serialize_to_vec(SignerMessage(2, Transactions(<<3>>))))]}
TxWorlds ==
    [{stacker_db_contract("Transactions", rc) :
        rc \in RewardCycles \cup {wrapping_add_1(r) : r \in RewardCycles}}
     -> TxStores]

\* What the EncryptedSignerState slots of the modelled store hold: nothing,
\* an empty buffer, a state, a state inside an envelope, a packet, a state
\* cut short, an unknown type prefix.
StateChunks ==
    {None, Some(<<>>),
     Some(serialize_message(EncryptedSignerState(<<2>>))),
     Some(serialize_to_vec(SignerMessage(1, EncryptedSignerState(<<2>>)))),
     Some(serialize_message(Packet(1))),
     Some(<<2, 2, 1>>),
     Some(<<3, 1>>)}
StateWorlds ==
    [{stacker_db_contract("EncryptedSignerState", rc) : rc \in RewardCycles}
     -> [StoreSlots -> StateChunks]]

\* The fetches the modelled callers make.
FetchRequests ==
    [op : {"dkg"}, signer_ids : SlotIdLists, world : DkgWorlds]
    \cup [op : {"current"}, signer_ids : {<<>>}, world : TxWorlds]
    \cup [op : {"next"}, signer_ids : SlotIdLists, world : TxWorlds]
    \cup [op : {"state"}, signer_ids : {<<s>> : s \in StoreSlots}, world : StateWorlds]

\* get_dkg_packets(signer_ids), every request going through.
GetDkgPackets ==
    /\ pc = "idle"
    /\ fetch_result = NoResult
    /\ fetch_req.op = "dkg"
    /\ LET out == get_dkg_packets(signers_message_stackerdb_sessions, reward_cycle,
                                  fetch_req.world, fetch_req.signer_ids)
       IN fetch_result' = out.result /\ fetch_log' = out.log
    /\ UNCHANGED <<client_vars, slot_versions, call_vars, read_vars, fetch_req,
                   store_vars>>

\* get_current_transactions(), the request going through.
GetCurrentTransactions ==
    /\ pc = "idle"
    /\ fetch_result = NoResult
    /\ fetch_req.op = "current"
    /\ LET out == get_current_transactions(signers_message_stackerdb_sessions,
                      signer_slot_id, reward_cycle, fetch_req.world)
       IN fetch_result' = out.result /\ fetch_log' = out.log
    /\ UNCHANGED <<client_vars, slot_versions, call_vars, read_vars, fetch_req,
                   store_vars>>

\* get_next_transactions(signer_ids), the request going through.
GetNextTransactions ==
    /\ pc = "idle"
    /\ fetch_result = NoResult
    /\ fetch_req.op = "next"
    /\ LET out == get_next_transactions(next_transaction_session, reward_cycle,
                      fetch_req.world, fetch_req.signer_ids)
       IN fetch_result' = out.result /\ fetch_log' = out.log
    /\ UNCHANGED <<client_vars, slot_versions, call_vars, read_vars, fetch_req,
                   store_vars>>

\* get_encrypted_signer_state(signer_id), the request going through.
GetEncryptedSignerState ==
    /\ pc = "idle"
    /\ fetch_result = NoResult
    /\ fetch_req.op = "state"
    /\ LET out == get_encrypted_signer_state(signers_message_stackerdb_sessions,
                      fetch_req.world, fetch_req.signer_ids[1])
       IN fetch_result' = out.result /\ fetch_log' = out.log
    /\ UNCHANGED <<client_vars, slot_versions, call_vars, read_vars, fetch_req,
                   store_vars>>

\* The get_latest_chunks requests an operation issues while its sessions
\* answer: one per packet slot, or the one of the operation's session.
RequestsOf(req) ==
    CASE req.op = "dkg" ->
            [c \in 1..Len(PacketSlots) |->
                Request(signers_message_stackerdb_sessions[PacketSlots[c]],
                        req.signer_ids)]
      [] req.op = "current" ->
            <<Request(signers_message_stackerdb_sessions["Transactions"],
                      <<signer_slot_id>>)>>
      [] req.op = "next" ->
            <<Request(next_transaction_session, req.signer_ids)>>
      [] req.op = "state" ->
            <<Request(signers_message_stackerdb_sessions["EncryptedSignerState"],
                      req.signer_ids)>>

\* A fetch operation whose request number n + 1 keeps ending in the error
\* e: the closure classifies it; the retry policy retries it and gives up,
\* or returns it.
FetchFail(e, n) ==
    /\ pc = "idle"
    /\ fetch_result = NoResult
    /\ n < Len(RequestsOf(fetch_req))
    /\ fetch_result' = IF RetryPolicyRetries(ErrorClass(e))
                       THEN Err(<<"RetryTimeout">>)
                       ELSE Err(<<e>>)
    /\ fetch_log' = SubSeq(RequestsOf(fetch_req), 1, n + 1)
    /\ UNCHANGED <<client_vars, slot_versions, call_vars, read_vars, fetch_req,
                   store_vars>>

NextFetch ==
    \/ GetDkgPackets
    \/ GetCurrentTransactions
    \/ GetNextTransactions
    \/ GetEncryptedSignerState
    \/ \E e \in SessionErrors, n \in 0..(Len(PacketSlots) - 1) : FetchFail(e, n)

\* A fetch of a freshly constructed client, for every request.
InitFetch ==
    /\ New /\ NoCall /\ StoreLeftOut
    /\ read_req = NoRequest
    /\ fetch_req \in FetchRequests

SpecFetch == InitFetch /\ [][NextFetch]_vars

\* ------------------------------------------------------------- look-ahead

\* Every reward cycle a client can be constructed with, the last one
\* included.
AllRewardCycles == 0..U64_MAX

\* What the Transactions instance of epoch a holds: in slot 1 a list tagged
\* with a, in slot 2 a list tagged with epoch t, nothing in slot 3.
LookAheadStore(a, t) ==
    [s \in StoreSlots |->
        CASE s = 1 -> Some(serialize_to_vec(SignerMessage(a, Transactions(<<a>>))))
          [] s = 2 -> Some(serialize_to_vec(SignerMessage(t, Transactions(<<t, t>>))))
          [] OTHER -> None]
LookAheadWorlds ==
    {[a \in {stacker_db_contract("Transactions", e) : e \in AllRewardCycles} |->
         LookAheadStore(a.reward_cycle, t[a.reward_cycle])] :
     t \in [AllRewardCycles -> AllRewardCycles]}

\* get_next_transactions of a client of any reward cycle.
LookAheadRequests ==
    [op : {"next"}, signer_ids : SlotIdLists, world : LookAheadWorlds]

InitLookAhead ==
    /\ NewIn(AllRewardCycles) /\ NoCall /\ StoreLeftOut
    /\ read_req = NoRequest
    /\ fetch_req \in LookAheadRequests

NextLookAhead ==
    \/ GetNextTransactions
    \/ \E e \in SessionErrors : FetchFail(e, 0)

SpecLookAhead == InitLookAhead /\ [][NextLookAhead]_vars

\* ------------------------------------------------------------------ store

\* The slot ids of the other clients writing to the same store instances.
PeerSlotIds == {1}
\* The versions a slot of the store holds when the client is constructed:
\* never written, written once, written several times, written out.
StoredVersions == {0, 1, 4, U32_MAX}
\* The versions the other clients put.
PeerVersions == {1, 5, U32_MAX}

\* The store's side of put_chunk (spec sections 1 and 6): each slot of each
\* instance has its own version; a chunk is accepted only if its version is
\* greater than the slot's, and a rejection reports the slot's version in its
\* metadata under the version-conflict code.
put_chunk(db, m, c) ==
    IF c.slot_version > db[m][c.slot_id]
    THEN [ack |-> Ack(TRUE, None, Meta(c.slot_version), None),
          db |-> [db EXCEPT ![m][c.slot_id] = c.slot_version]]
    ELSE [ack |-> Ack(FALSE, Some("Data for this slot and version already exist"),
                      Meta(db[m][c.slot_id]), Some(0)),
          db |-> db]

\* The store's chunks after put_chunk: an accepted chunk's bytes replace
\* what the slot of the session's instance held. Where the contents of the
\* store are left out, they stay left out.
put_chunk_data(chunks, session, c, accepted) ==
    IF chunks = NoStore \/ ~accepted THEN chunks
    ELSE [chunks EXCEPT ![session][c.slot_id] = Some(c.data)]

\* session.put_chunk(&chunk) is answered by the store instance the session
\* talks to.
StorePut ==
    /\ pc = "put"
    /\ LET session == Unwrap(put_session)
           r == put_chunk(stackerdb, session.msg_id, chunk)
       IN /\ ReceiveAck(r.ack)
          /\ stackerdb' = r.db
          /\ stackerdb_chunks' =
                put_chunk_data(stackerdb_chunks, session, chunk, r.ack.accepted)
    /\ UNCHANGED stackerdb_init

\* Another client, whose slot id is s, has a chunk of version v accepted by
\* the store instance of category m.
PeerPut(m, s, v) ==
    /\ LET c == NewChunk(s, v, <<>>)
           r == put_chunk(stackerdb, m, c)
       IN /\ r.ack.accepted
          /\ stackerdb' = r.db
          /\ stackerdb_chunks' =
                put_chunk_data(stackerdb_chunks, stacker_db_contract(m, reward_cycle),
                               c, TRUE)
    /\ UNCHANGED <<client_vars, slot_versions, call_vars, read_vars, fetch_vars,
                   stackerdb_init>>

\* The steps of the client inside a publish call whose chunk gets signed and
\* whose requests get through.
ClientNext ==
    \/ LoopTop(TRUE)
    \/ StorePut
    \/ HandleAck

NextStore ==
    \/ \E m \in PublishIds, bytes \in MessageBytes : Publish(m, bytes)
    \/ ClientNext
    \/ \E m \in PublishIds, s \in PeerSlotIds, v \in PeerVersions : PeerPut(m, s, v)

\* A freshly constructed (or restarted) client in front of a store whose
\* slots have been written before.
InitStore ==
    /\ New /\ NoCall /\ NoReads
    /\ stackerdb \in [PublishIds -> [SignerSlotIds \cup PeerSlotIds -> StoredVersions]]
    /\ stackerdb_init = stackerdb
    /\ stackerdb_chunks = NoStore

\* The client is a sequential program: inside a call it keeps taking steps.
SpecStore == InitStore /\ [][NextStore]_vars /\ WF_vars(ClientNext)

\* ------------------------------------------------------------- round trip

\* StackerDBMessage::msg_id (spec section 3): a packet belongs to the DKG
\* category of its protocol message, a transaction list to Transactions, a
\* state blob to EncryptedSignerState.
msg_id_of(message) ==
    CASE message.kind = "Packet" -> PacketSlots[message.body[1]]
      [] message.kind = "Transactions" -> "Transactions"
      [] message.kind = "EncryptedSignerState" -> "EncryptedSignerState"

\* Faulty variant: the envelope is tagged with the next epoch.
send_message_bytes_NextCycle(rc, message) ==
    serialize_to_vec(SignerMessage(wrapping_add_1(rc), message))

\* send_message_with_retry: the envelope is tagged with the client's epoch
\* and serialized.
send_message_bytes(rc, message) ==
    serialize_to_vec(SignerMessage(rc, message))

\* The messages the modelled callers send.
SentMessages == {Packet(1), Transactions(<<1, 2>>), Transactions(<<3>>)}

\* send_message_with_retry(message)
SendMessage(message) ==
    /\ stackerdb_chunks # NoStore
    /\ Publish(msg_id_of(message), send_message_bytes(reward_cycle, message))

\* The store instances of the client's epoch and the next one.
StoreSessions ==
    {stacker_db_contract(m, rc) :
        m \in MessageSlotID_ALL,
        rc \in {reward_cycle, wrapping_add_1(reward_cycle)}}

\* What a slot of a store instance that has been in use holds when the
\* client is constructed: slot 1 a peer's packet 2 (DKG) or list (otherwise),
\* the client's own slot what the client wrote before it was restarted.
UsedChunk(session, s) ==
    LET dkg == session.msg_id \notin {"Transactions", "EncryptedSignerState"}
    IN CASE s \in PeerSlotIds ->
              Some(serialize_to_vec(SignerMessage(session.reward_cycle,
                      IF dkg THEN Packet(2) ELSE Transactions(<<4>>))))
         [] s \in SignerSlotIds ->
              Some(serialize_to_vec(SignerMessage(session.reward_cycle,
                      IF dkg THEN Packet(3) ELSE Transactions(<<5>>))))
         [] OTHER -> None

\* A freshly constructed (or restarted) client in front of a store that is
\* new, or whose slots were last written at version 4.
InitRoundTrip ==
    /\ New /\ NoCall /\ NoReads
    /\ \E used \in BOOLEAN :
          /\ stackerdb = [m \in PublishIds |->
                            [s \in SignerSlotIds \cup PeerSlotIds |->
                                IF used THEN 4 ELSE 0]]
          /\ stackerdb_chunks =
                [a \in StoreSessions |->
                    [s \in StoreSlots |->
                        IF used /\ a.msg_id \in PublishIds
                        THEN UsedChunk(a, s) ELSE None]]
    /\ stackerdb_init = stackerdb

\* get_dkg_packets(signer_ids) against the store.
ReadBackDkgPackets(signer_ids) ==
    /\ pc = "idle"
    /\ fetch_result = NoResult
    /\ fetch_req' = [op |-> "dkg", signer_ids |-> signer_ids,
                     world |-> stackerdb_chunks]
    /\ LET out == get_dkg_packets(signers_message_stackerdb_sessions, reward_cycle,
                                  stackerdb_chunks, signer_ids)
       IN fetch_result' = out.result /\ fetch_log' = out.log
    /\ UNCHANGED <<client_vars, slot_versions, call_vars, read_vars, store_vars>>

\* get_current_transactions() against the store.
ReadBackCurrentTransactions ==
    /\ pc = "idle"
    /\ fetch_result = NoResult
    /\ fetch_req' = [op |-> "current", signer_ids |-> <<>>,
                     world |-> stackerdb_chunks]
    /\ LET out == get_current_transactions(signers_message_stackerdb_sessions,
                      signer_slot_id, reward_cycle, stackerdb_chunks)
       IN fetch_result' = out.result /\ fetch_log' = out.log
    /\ UNCHANGED <<client_vars, slot_versions, call_vars, read_vars, store_vars>>

\* get_next_transactions(signer_ids) against the store.
ReadBackNextTransactions(signer_ids) ==
    /\ pc = "idle"
    /\ fetch_result = NoResult
    /\ fetch_req' = [op |-> "next", signer_ids |-> signer_ids,
                     world |-> stackerdb_chunks]
    /\ LET out == get_next_transactions(next_transaction_session, reward_cycle,
                      stackerdb_chunks, signer_ids)
       IN fetch_result' = out.result /\ fetch_log' = out.log
    /\ UNCHANGED <<client_vars, slot_versions, call_vars, read_vars, store_vars>>

\* get_encrypted_signer_state(signer_id) against the store.
ReadBackEncryptedSignerState(signer_id) ==
    /\ pc = "idle"
    /\ fetch_result = NoResult
    /\ fetch_req' = [op |-> "state", signer_ids |-> <<signer_id>>,
                     world |-> stackerdb_chunks]
    /\ LET out == get_encrypted_signer_state(signers_message_stackerdb_sessions,
                      stackerdb_chunks, signer_id)
       IN fetch_result' = out.result /\ fetch_log' = out.log
    /\ UNCHANGED <<client_vars, slot_versions, call_vars, read_vars, store_vars>>

NextRoundTrip ==
    \/ \E message \in SentMessages : SendMessage(message)
    \/ \E sign_ok \in BOOLEAN : LoopTop(sign_ok)
    \/ StorePut
    \/ HandleAck
    \/ \E m \in PublishIds, s \in PeerSlotIds : PeerPut(m, s, 5)
    \/ \E signer_ids \in SlotIdLists : ReadBackDkgPackets(signer_ids)
    \/ ReadBackCurrentTransactions
    \/ \E signer_ids \in SlotIdLists : ReadBackNextTransactions(signer_ids)
    \/ \E signer_id \in StoreSlots : ReadBackEncryptedSignerState(signer_id)

\* The client publishes to and fetches from one store, every request
\* getting through; the signing step may fail.
SpecRoundTrip == InitRoundTrip /\ [][NextRoundTrip]_vars

\* ------------------------------------------------------- state round trip

\* The categories a signer that persists its state publishes to.
StatePublishIds == PublishIds \cup {"EncryptedSignerState"}

\* The messages such a signer sends: two state blobs and a packet.
StateMessages ==
    {EncryptedSignerState(<<7>>), EncryptedSignerState(<<8, 9>>), Packet(1)}

\* send_message_with_retry(message) of a signer that persists its state.
SendStateMessage(message) ==
    /\ message \in StateMessages
    /\ SendMessage(message)

\* A freshly constructed client in front of a store that is new, or whose
\* slots were last written at version 4; the own slot of the state instance
\* then holds a bare state message.
InitStateRoundTrip ==
    /\ New /\ NoCallTo(StatePublishIds) /\ NoReads
    /\ \E used \in BOOLEAN :
          /\ stackerdb = [m \in StatePublishIds |->
                            [s \in SignerSlotIds \cup PeerSlotIds |->
                                IF used THEN 4 ELSE 0]]
          /\ stackerdb_chunks =
                [a \in StoreSessions |->
                    [s \in StoreSlots |->
                        IF ~used THEN None
                        ELSE IF a.msg_id \in PublishIds THEN UsedChunk(a, s)
                        ELSE IF a.msg_id = "EncryptedSignerState"
                                /\ a.reward_cycle = reward_cycle
                                /\ s \in SignerSlotIds
                        THEN Some(serialize_message(EncryptedSignerState(<<2>>)))
                        ELSE None]]
    /\ stackerdb_init = stackerdb

NextStateRoundTrip ==
    \/ \E message \in StateMessages : SendStateMessage(message)
    \/ LoopTop(TRUE)
    \/ StorePut
    \/ HandleAck
    \/ \E signer_id \in StoreSlots : ReadBackEncryptedSignerState(signer_id)

\* The client persists its state in the store and reads it back.
SpecStateRoundTrip == InitStateRoundTrip /\ [][NextStateRoundTrip]_vars

\* ------------------------------------------------------------ shared slot

\* The versions a second client instance constructed with the same slot id
\* has accepted by the store.
SharedVersions == {1, 2, 5, 6, U32_MAX}

\* The second instance's put_chunk is accepted by the store instance of
\* category m.
SharedSlotPut(m, v) ==
    /\ v \in SharedVersions
    /\ PeerPut(m, signer_slot_id, v)

NextShared ==
    \/ \E m \in PublishIds, bytes \in MessageBytes : Publish(m, bytes)
    \/ LoopTop(TRUE)
    \/ StorePut
    \/ HandleAck
    \/ \E m \in PublishIds, v \in SharedVersions : SharedSlotPut(m, v)

\* Two instances with the same slot id in front of a store whose slot has
\* been written before.
InitShared ==
    /\ New /\ NoCall /\ NoReads
    /\ stackerdb \in {db \in [PublishIds -> [SignerSlotIds \cup PeerSlotIds -> StoredVersions]] :
                        \A m \in PublishIds, s \in PeerSlotIds : db[m][s] = 0}
    /\ stackerdb_init = stackerdb
    /\ stackerdb_chunks = NoStore

SpecShared == InitShared /\ [][NextShared]_vars

\* ----------------------------------------------------------------- claims

\* The cache entry of the current call's (category, own slot).
HasEntry(m) == m \in DOMAIN slot_versions /\ signer_slot_id \in DOMAIN slot_versions[m]
Entry(m) == slot_versions[m][signer_slot_id]
\* The previous attempt of this call ended in a version conflict.
PrevConflict == IsSome(prev) /\ IsConflict(Unwrap(prev).ack)
PrevMeta == Unwrap(Unwrap(prev).ack.metadata).slot_version

\* C1: starting from an empty cache, while every publish call to a category
\* has made exactly one put attempt and had it accepted, the k-th call to
\* that category sends slot version k.
C1_KthCallSendsVersionK ==
    \A m \in PublishIds :
        (pc \in {"put", "acked"} /\ msg_id = m /\ hist[m].clean)
            => chunk.slot_version = hist[m].calls

C1_Witness ==
    /\ pc = "put" /\ hist[msg_id].clean
    /\ hist[msg_id].calls = 2 /\ chunk.slot_version = 2

\* C2 (as stated): after a version conflict whose metadata reports V, the
\* next put attempt of the call carries version V, and once it is accepted
\* the cache entry is V + 1.
C2_RetryUsesReportedVersion ==
    (PrevConflict /\ IsSome(Unwrap(prev).ack.metadata)) =>
        /\ pc = "put" => chunk.slot_version = PrevMeta
        /\ (pc = "idle" /\ result.kind = "ok") => Entry(msg_id) = PrevMeta + 1

\* C2 (amended): after a version conflict whose metadata reports V, the next
\* put attempt of the call carries version V + 1, and once it is accepted
\* the cache entry is V + 2, both saturating at the largest version.
C2_RetryUsesReportedVersionPlusOne ==
    (PrevConflict /\ IsSome(Unwrap(prev).ack.metadata)) =>
        LET next == IF PrevMeta + 1 > U32_MAX THEN U32_MAX ELSE PrevMeta + 1
            after == IF next + 1 > U32_MAX THEN U32_MAX ELSE next + 1
        IN /\ pc = "put" => chunk.slot_version = next
           /\ (pc = "idle" /\ result.kind = "ok") => Entry(msg_id) = after

C2_Witness ==
    /\ PrevConflict /\ Unwrap(prev).ack.metadata = Meta(4)
    /\ Unwrap(prev).slot_version = 2
    /\ pc = "idle" /\ result.kind = "ok"
    /\ chunk.slot_version = 5 /\ Entry(msg_id) = 6

\* C3: an acknowledgment rejected with a code other than the version
\* conflict (a code of no known kind included) ends the call with an error;
\* no state of the call follows it in which another attempt is under way.
C3_NonConflictCodeIsTerminal ==
    (/\ IsSome(chunk_ack) /\ pc # "acked"
     /\ ~Unwrap(chunk_ack).accepted
     /\ IsSome(Unwrap(chunk_ack).code)
     /\ from_code(Unwrap(Unwrap(chunk_ack).code)) # Some(DataAlreadyExists))
        => /\ pc = "idle"
           /\ result.kind = "err"
           /\ result.err[1] = "PutChunkRejected"

C3_Witness ==
    /\ pc = "idle" /\ result.kind = "err"
    /\ IsSome(chunk_ack) /\ Unwrap(chunk_ack).code = Some(7)
    /\ ~Unwrap(chunk_ack).accepted

\* C4 (as stated): an acknowledgment rejected without any rejection code
\* ends the call with an error; no further attempt follows it.
C4_NoCodeIsTerminal ==
    (/\ IsSome(chunk_ack) /\ pc # "acked"
     /\ ~Unwrap(chunk_ack).accepted
     /\ Unwrap(chunk_ack).code = None)
        => pc = "idle" /\ result.kind = "err"

\* C5 (as stated): once an attempt with version v to a category has been
\* acknowledged, the cache entry of that category is at least v + 1.
C5_CacheAtLeastAttemptedPlusOne ==
    \A m \in PublishIds :
        IsSome(hist[m].last) => HasEntry(m) /\ Entry(m) >= Unwrap(hist[m].last) + 1

\* C5 (amended): once an attempt with version v to a category has been
\* acknowledged, the cache entry of that category is at least v + 1,
\* saturating at the largest version, unless a conflict correction whose
\* metadata reported a version below v has set it lower since.
C5_CacheAtLeastAttemptedPlusOneSaturating ==
    \A m \in PublishIds :
        (IsSome(hist[m].last) /\ ~hist[m].lowered) =>
            LET v == Unwrap(hist[m].last)
            IN HasEntry(m)
               /\ Entry(m) >= (IF v + 1 > U32_MAX THEN U32_MAX ELSE v + 1)

C5_Witness ==
    /\ pc = "loop" /\ PrevConflict
    /\ Unwrap(prev).ack.metadata = Meta(4)
    /\ hist[msg_id].last = Some(1) /\ ~hist[msg_id].lowered
    /\ Entry(msg_id) = 5

\* C6 (as stated): right after a version conflict whose metadata reports V
\* has been handled, the cache entry is V + 1.
C6_CorrectedToReportedPlusOne ==
    (pc = "loop" /\ PrevConflict /\ IsSome(Unwrap(prev).ack.metadata))
        => Entry(msg_id) = PrevMeta + 1

\* C6 (amended): right after a version conflict whose metadata reports V has
\* been handled, the cache entry is V + 1, saturating at the largest
\* version, whatever version was attempted.
C6_CorrectedToReportedPlusOneSaturating ==
    (pc = "loop" /\ PrevConflict /\ IsSome(Unwrap(prev).ack.metadata))
        => Entry(msg_id) = (IF PrevMeta + 1 > U32_MAX THEN U32_MAX ELSE PrevMeta + 1)

C6_Witness ==
    /\ pc = "loop" /\ PrevConflict
    /\ Unwrap(prev).ack.metadata = Meta(0)
    /\ Unwrap(prev).slot_version = 5
    /\ Entry(msg_id) = 1

\* C7 (as stated): after a version conflict without metadata on an attempt
\* with version v, the cache entry is v + 1 and the next put attempt of the
\* call carries v + 1.
C7_NoMetadataRetriesNextVersion ==
    (PrevConflict /\ Unwrap(prev).ack.metadata = None) =>
        LET v == Unwrap(prev).slot_version
        IN /\ pc = "loop" => Entry(msg_id) = v + 1
           /\ pc = "put" => chunk.slot_version = v + 1

\* C7 (amended): after a version conflict without metadata on an attempt
\* with version v, the cache entry is v + 1 and the next put attempt of the
\* call carries v + 1, saturating at the largest version.
C7_NoMetadataRetriesNextVersionSaturating ==
    (PrevConflict /\ Unwrap(prev).ack.metadata = None) =>
        LET v == Unwrap(prev).slot_version
            next == IF v + 1 > U32_MAX THEN U32_MAX ELSE v + 1
        IN /\ pc = "loop" => Entry(msg_id) = next
           /\ pc = "put" => chunk.slot_version = next

C7_Witness ==
    /\ PrevConflict /\ Unwrap(prev).ack.metadata = None
    /\ Unwrap(prev).slot_version = 5
    /\ pc = "put" /\ chunk.slot_version = 6

\* C8: a publish call that has returned has returned Ok or one error; it
\* returns Ok only with the acknowledgment of its last attempt, unchanged
\* and accepted, and an accepted acknowledgment is followed by no further
\* attempt.
C8_OkOnlyForAcceptedAck ==
    /\ result.kind = "ok" =>
          /\ pc = "idle"
          /\ IsSome(chunk_ack) /\ Unwrap(chunk_ack).accepted
          /\ result.ack = chunk_ack
    /\ (IsSome(chunk_ack) /\ Unwrap(chunk_ack).accepted /\ pc # "acked") =>
          pc = "idle" /\ result = Ok(Unwrap(chunk_ack))
    /\ (pc = "idle" /\ hist[msg_id].calls > 0) => result.kind \in {"ok", "err"}

C8_Witness ==
    /\ pc = "idle" /\ result.kind = "ok" /\ attempts = 2
    /\ Unwrap(result.ack) = Ack(TRUE, Some("stale"), Meta(4), Some(0))

\* C9 (as stated): a put_chunk error the session classifies as fatal is
\* returned to the caller at once: after it the call has ended in an error.
C9_FatalErrorNotRetried ==
    last_err = Some("fatal") => pc = "idle" /\ result.kind = "err"

\* C10: whatever the requested slots hold (nothing, an empty buffer,
\* undecodable bytes, envelopes of the requested or of another epoch), every
\* envelope get_messages returns is tagged with the requested epoch.
C10_ReturnedEpochIsRequested ==
    read_result.kind = "ok" =>
        \A i \in 1..Len(read_result.messages) :
            read_result.messages[i].reward_cycle = read_req.reward_cycle

\* A read of slots [1, 2, 3] holding an envelope of the requested epoch, one
\* of another epoch and undecodable bytes.
C10_Witness ==
    /\ read_result.kind = "ok"
    /\ read_req.slot_ids = <<1, 2, 3>> /\ read_req.reward_cycle = 1
    /\ read_req.store[1] = Some(serialize_to_vec(SignerMessage(1, Packet(1))))
    /\ read_req.store[2] = Some(serialize_to_vec(SignerMessage(2, Packet(1))))
    /\ read_req.store[3] = Some(<<1, 3>>)
    /\ read_result.messages = <<SignerMessage(1, Packet(1))>>

\* The k-th smallest member of a set of positions.
KthOf(S, k) == CHOOSE j \in S : Cardinality({x \in S : x <= j}) = k

\* What the read's i-th requested slot holds, and the envelope it decodes to.
ReadChunk(i) == read_req.store[read_req.slot_ids[i]]
ReadDecoded(i) == read_next_signer_message(Unwrap(ReadChunk(i)))
\* The positions of the read's slot-id list whose slot holds a chunk that
\* decodes to an envelope of the requested epoch.
ReadSurvivors ==
    {i \in 1..Len(read_req.slot_ids) :
        /\ IsSome(ReadChunk(i))
        /\ IsSome(ReadDecoded(i))
        /\ Unwrap(ReadDecoded(i)).reward_cycle = read_req.reward_cycle}

\* C11: get_messages returns exactly the envelopes of the requested slots
\* whose chunk is present, decodes and carries the requested epoch, one per
\* such position of the slot-id list and in the order of the list: nothing is
\* dropped, duplicated or reordered.
C11_ReturnsSurvivorsInRequestOrder ==
    read_result.kind = "ok" =>
        /\ Len(read_result.messages) = Cardinality(ReadSurvivors)
        /\ \A k \in 1..Len(read_result.messages) :
              read_result.messages[k] = Unwrap(ReadDecoded(KthOf(ReadSurvivors, k)))

\* Slots [3, 1] both hold envelopes of the requested epoch: the result is
\* slot 3's envelope, then slot 1's.
C11_Witness ==
    /\ read_result.kind = "ok"
    /\ read_req.slot_ids = <<3, 1>> /\ read_req.reward_cycle = 1
    /\ read_req.store[1] = Some(serialize_to_vec(SignerMessage(1, Packet(1))))
    /\ read_req.store[3] = Some(serialize_to_vec(SignerMessage(1, Transactions(<<1, 2>>))))
    /\ read_result.messages =
          <<SignerMessage(1, Transactions(<<1, 2>>)), SignerMessage(1, Packet(1))>>

\* Every requested slot of the read is absent, empty or undecodable.
ReadAllUnusable ==
    \A i \in 1..Len(read_req.slot_ids) :
        \/ ~IsSome(ReadChunk(i))
        \/ ~IsSome(ReadDecoded(i))

\* C12: when every requested slot is absent, empty or undecodable and the
\* request itself went through, get_messages returns Ok with an empty
\* sequence; the only error such a read can end in is the request's own.
C12_UnusableSlotsGiveEmptyOk ==
    (ReadAllUnusable /\ read_result # NoResult) =>
        \/ read_result = OkMessages(<<>>)
        \/ read_result = Err(<<"RetryTimeout">>)

\* Slots [1, 2, 3] are absent, empty and cut short: the read is Ok and empty.
C12_Witness ==
    /\ read_req.slot_ids = <<1, 2, 3>>
    /\ read_req.store[1] = None
    /\ read_req.store[2] = Some(<<>>)
    /\ read_req.store[3] = Some(<<1, 1, 2, 1>>)
    /\ read_result = OkMessages(<<>>)

\* The total length of the first n sequences of f.
RECURSIVE SumLen(_, _)
SumLen(f, n) == IF n = 0 THEN 0 ELSE SumLen(f, n - 1) + Len(f[n])
\* res is the sequences f[1], ..., f[n] one after the other.
IsConcat(res, f, n) ==
    /\ Len(res) = SumLen(f, n)
    /\ \A i \in 1..n : \A j \in 1..Len(f[i]) : res[SumLen(f, i - 1) + j] = f[i][j]

\* C13: no fetch operation returns an error because of what a slot holds;
\* an error is returned only for a transport failure (the retry policy
\* giving up on a request) or a missing session.
C13_NoErrorFromSlotContent ==
    fetch_result.kind = "err" =>
        fetch_result.err \in {<<"RetryTimeout">>, <<"NotConnected">>}

\* The packet-slot categories in the order of the specification.
DkgOrder ==
    <<"DkgBegin", "DkgPublicShares", "DkgPrivateBegin", "DkgPrivateShares",
      "DkgEndBegin", "DkgEnd">>
\* What slot slot_id of the store instance of category m and epoch rc
\* contributes to a fetch of the payloads of variant kind: the payload's
\* body when the chunk decodes to an envelope of that epoch and variant.
Contribution(m, rc, slot_id, kind) ==
    LET data == StoreAt(fetch_req.world, stacker_db_contract(m, rc))[slot_id]
        sm == read_next_signer_message(Unwrap(data))
    IN IF /\ IsSome(data)
          /\ IsSome(sm)
          /\ Unwrap(sm).reward_cycle = rc
          /\ Unwrap(sm).message.kind = kind
       THEN Unwrap(sm).message.body
       ELSE <<>>
\* The packets of every (category, position of the signer-id list), category
\* by category in the specification's order, position by position.
DkgGrid ==
    LET n == Len(fetch_req.signer_ids)
    IN [j \in 1..(Len(DkgOrder) * n) |->
          Contribution(DkgOrder[((j - 1) \div n) + 1], reward_cycle,
                       fetch_req.signer_ids[((j - 1) % n) + 1], "Packet")]

\* C14: get_dkg_packets returns the packets of the six DKG categories in
\* the order begin, public-shares, private-begin, private-shares, end-begin,
\* end, and within a category in the order of the signer-id list; the result
\* is a function of what the slots hold, not of when it was written.
C14_DkgPacketsInCategoryThenSlotOrder ==
    (fetch_req.op = "dkg" /\ fetch_result.kind = "ok") =>
        IsConcat(fetch_result.value, DkgGrid,
                 Len(DkgOrder) * Len(fetch_req.signer_ids))

\* Signers [1, 2, 3]: the begin slots hold a stale packet, undecodable bytes
\* and packet 3, the public-shares slots packets 1 and 2, the end slots a
\* transaction list and packet 1.
C14_Witness ==
    /\ fetch_req.op = "dkg" /\ fetch_req.signer_ids = <<1, 2, 3>>
    /\ fetch_req.world[stacker_db_contract("DkgBegin", 1)][3]
          = Some(serialize_to_vec(SignerMessage(1, Packet(3))))
    /\ fetch_req.world[stacker_db_contract("DkgPublicShares", 1)][2]
          = Some(serialize_to_vec(SignerMessage(1, Packet(2))))
    /\ fetch_req.world[stacker_db_contract("DkgEnd", 1)][1]
          = Some(serialize_to_vec(SignerMessage(1, Transactions(<<1, 2>>))))
    /\ fetch_result = OkValue(<<3, 1, 2, 1>>)

\* What the requested state slot holds and what it decodes to.
StateChunk ==
    StoreAt(fetch_req.world,
            stacker_db_contract("EncryptedSignerState", reward_cycle))
        [fetch_req.signer_ids[1]]
StateDecoded == read_next_message(Unwrap(StateChunk))
\* The slot holds no chunk, an empty buffer, or a chunk that decodes to
\* another payload variant.
StateSlotUnusable ==
    IF ~IsSome(StateChunk) THEN TRUE
    ELSE IF Unwrap(StateChunk) = <<>> THEN TRUE
    ELSE IsSome(StateDecoded) /\ Unwrap(StateDecoded).kind # "EncryptedSignerState"

\* C15: once its request went through, get_encrypted_signer_state returns
\* Ok(None) when the slot holds no chunk, an empty buffer or a chunk that
\* decodes to another payload variant, and it returns Ok(Some(state)) only
\* when the chunk decodes to the encrypted-state variant holding state.
C15_StateIsNoneUnlessEncryptedState ==
    (fetch_req.op = "state" /\ fetch_result # NoResult) =>
        /\ StateSlotUnusable =>
              \/ fetch_result = OkValue(None)
              \/ fetch_result = Err(<<"RetryTimeout">>)
        /\ (fetch_result.kind = "ok" /\ IsSome(fetch_result.value)) =>
              /\ IsSome(StateChunk)
              /\ StateDecoded = Some(EncryptedSignerState(Unwrap(fetch_result.value)))

\* The state slot of signer 2 holds a packet: the fetch returns Ok(None).
C15_Witness ==
    /\ fetch_req.op = "state" /\ fetch_req.signer_ids = <<2>>
    /\ StateChunk = Some(serialize_message(Packet(1)))
    /\ fetch_result = OkValue(None)

\* C16: get_next_transactions issues one request, through the look-ahead
\* session (the Transactions store of reward cycle + 1) and for the given
\* slots, and returns, flattened in slot order, the transactions of exactly
\* the envelopes tagged reward cycle + 1; an envelope of the current cycle
\* contributes nothing.
C16_NextTransactionsOfNextEpoch ==
    (fetch_req.op = "next" /\ fetch_result # NoResult) =>
        /\ fetch_log = <<Request(stacker_db_contract("Transactions", reward_cycle + 1),
                                 fetch_req.signer_ids)>>
        /\ fetch_result.kind = "ok" =>
              IsConcat(fetch_result.value,
                       [i \in 1..Len(fetch_req.signer_ids) |->
                           Contribution("Transactions", reward_cycle + 1,
                                        fetch_req.signer_ids[i], "Transactions")],
                       Len(fetch_req.signer_ids))

\* Signers [1, 2, 3] of a client of cycle 1: the look-ahead slots hold lists
\* of cycle 2, cycle 1 and cycle 2, the current store's slots lists of
\* cycle 2; the result is the two look-ahead lists of cycle 2.
C16_Witness ==
    /\ fetch_req.op = "next" /\ fetch_req.signer_ids = <<1, 2, 3>>
    /\ reward_cycle = 1
    /\ \A s \in StoreSlots :
          fetch_req.world[stacker_db_contract("Transactions", 1)][s]
              = Some(serialize_to_vec(SignerMessage(2, Transactions(<<3>>))))
    /\ fetch_req.world[stacker_db_contract("Transactions", 2)][1]
          = Some(serialize_to_vec(SignerMessage(2, Transactions(<<4, 5>>))))
    /\ fetch_req.world[stacker_db_contract("Transactions", 2)][2]
          = Some(serialize_to_vec(SignerMessage(1, Transactions(<<1, 2>>))))
    /\ fetch_req.world[stacker_db_contract("Transactions", 2)][3]
          = Some(serialize_to_vec(SignerMessage(2, Transactions(<<3>>))))
    /\ fetch_result = OkValue(<<4, 5, 3>>)

\* C17: get_current_transactions issues one request, for the client's own
\* slot id alone and through the Transactions session of the client's own
\* epoch (never the look-ahead session), and returns only the transactions
\* of an envelope of that slot tagged with the client's reward cycle.
C17_CurrentTransactionsOfOwnSlot ==
    (fetch_req.op = "current" /\ fetch_result # NoResult) =>
        /\ fetch_log = <<Request(stacker_db_contract("Transactions", reward_cycle),
                                 <<signer_slot_id>>)>>
        /\ fetch_result.kind = "ok" =>
              fetch_result.value =
                  Contribution("Transactions", reward_cycle, signer_slot_id,
                               "Transactions")

\* The client of slot 3 and cycle 1: its slot holds a list of cycle 1, the
\* peers' slots and the look-ahead store hold lists of cycle 2.
C17_Witness ==
    /\ fetch_req.op = "current" /\ signer_slot_id = 3 /\ reward_cycle = 1
    /\ fetch_req.world[stacker_db_contract("Transactions", 1)][3]
          = Some(serialize_to_vec(SignerMessage(1, Transactions(<<1, 2>>))))
    /\ fetch_req.world[stacker_db_contract("Transactions", 1)][1]
          = Some(serialize_to_vec(SignerMessage(2, Transactions(<<3>>))))
    /\ fetch_req.world[stacker_db_contract("Transactions", 2)][3]
          = Some(serialize_to_vec(SignerMessage(2, Transactions(<<4, 5>>))))
    /\ fetch_result = OkValue(<<1, 2>>)

\* The version the store held for the client's own slot of the current
\* call's category when the client was constructed.
OwnInitialVersion == stackerdb_init[msg_id][signer_slot_id]
\* The client, restarted with an empty cache, is at the start of its first
\* publish call to a category, or anywhere inside it.
RestartedCallStarts ==
    pc = "loop" /\ attempts = 0 /\ hist[msg_id].calls = 1
InRestartedCall ==
    pc \in {"loop", "put", "acked"} /\ hist[msg_id].calls = 1
PublishAccepted == pc = "idle" /\ result.kind = "ok"

\* C19 (as stated): a client with an empty cache that publishes to a slot
\* whose stored version is V >= 1, the store accepting only a greater
\* version and reporting the stored one on a conflict, and nobody else
\* writing to the slot, eventually has its publish accepted.
C19_RestartEventuallyAccepted ==
    (RestartedCallStarts /\ OwnInitialVersion >= 1) ~> PublishAccepted

\* C19 (amended): the same for 1 <= V < the largest version: the publish is
\* accepted, and it is accepted at the call's second attempt, which carries
\* version V + 1; the call returns nothing but that acceptance.
C19_RestartAcceptedAtSecondAttempt ==
    /\ (RestartedCallStarts /\ OwnInitialVersion >= 1 /\ OwnInitialVersion < U32_MAX)
          ~> PublishAccepted
    /\ [](   (InRestartedCall /\ OwnInitialVersion >= 1 /\ OwnInitialVersion < U32_MAX)
          => /\ attempts <= 2
             /\ (pc = "acked" /\ attempts = 1) => ~Unwrap(chunk_ack).accepted
             /\ (pc \in {"put", "acked"} /\ attempts = 2) =>
                    chunk.slot_version = OwnInitialVersion + 1
             /\ (pc = "acked" /\ attempts = 2) => Unwrap(chunk_ack).accepted)
    /\ [](   (pc = "idle" /\ result.kind # "none" /\ hist[msg_id].calls = 1
              /\ OwnInitialVersion >= 1 /\ OwnInitialVersion < U32_MAX)
          => result.kind = "ok")

\* The slot held version 4: the restarted client's second attempt, with
\* version 5, was accepted.
C19_Witness ==
    /\ PublishAccepted
    /\ hist[msg_id].calls = 1 /\ OwnInitialVersion = 4
    /\ attempts = 2 /\ chunk.slot_version = 5
    /\ stackerdb[msg_id][signer_slot_id] = 5

\* The version of attempt a of the client's k-th call to a category whose
\* slot held v0 at construction, when the client is the slot's only writer.
VersionWhenAlone(v0, k, a) ==
    IF v0 = 0 THEN k
    ELSE IF k = 1 THEN (IF a = 1 THEN 1 ELSE IF v0 < U32_MAX THEN v0 + 1 ELSE U32_MAX)
    ELSE v0 + k

\* C20: with another client writing to its own, different slot of the same
\* store instances at any moment, the client behaves as it does alone: its
\* chunks go to its own slot with the versions it would send alone, its
\* slot holds what it held at construction or the client's latest accepted
\* version, and a conflict it meets reports its own slot's version, left
\* there before the client was constructed.
C20_OtherSlotsDoNotInterfere ==
    LET own == stackerdb[msg_id][signer_slot_id]
    IN /\ \A m \in PublishIds :
             \/ stackerdb[m][signer_slot_id] = stackerdb_init[m][signer_slot_id]
             \/ hist[m].last = Some(stackerdb[m][signer_slot_id])
       /\ pc \in {"put", "acked"} =>
             /\ chunk.slot_id = signer_slot_id
             /\ chunk.slot_version =
                   VersionWhenAlone(OwnInitialVersion, hist[msg_id].calls, attempts)
       /\ (pc = "acked" /\ ~Unwrap(chunk_ack).accepted) =>
             /\ Unwrap(chunk_ack).metadata = Meta(OwnInitialVersion)
             /\ own = OwnInitialVersion
             /\ OwnInitialVersion >= 1
             /\ hist[msg_id].calls = 1

\* The client's second publish to a category, version 2, has been accepted
\* at its first attempt while the other client's slot of the same store
\* instance went from version 1 to version 5.
C20_Witness ==
    /\ PublishAccepted
    /\ hist[msg_id].calls = 2 /\ attempts = 1 /\ chunk.slot_version = 2
    /\ stackerdb[msg_id][signer_slot_id] = 2
    /\ stackerdb_init[msg_id][1] = 1 /\ stackerdb[msg_id][1] = 5

\* C23: when a publish call returns PutChunkRejected, its last attempt was
\* rejected with a code other than the version conflict, and the error
\* carries the reason text of that acknowledgment, or "No reason given" when
\* the acknowledgment has no reason.
C23_RejectionCarriesStoreReason ==
    (pc = "idle" /\ result.kind = "err" /\ result.err[1] = "PutChunkRejected") =>
        /\ IsSome(chunk_ack)
        /\ LET ack == Unwrap(chunk_ack)
           IN /\ ~ack.accepted
              /\ IsSome(ack.code) /\ Unwrap(ack.code) # 0
              /\ Len(result.err) = 2
              /\ ack.reason # None => result.err[2] = ack.reason[1]
              /\ ack.reason = None => result.err[2] = "No reason given"

\* A no-such-slot rejection without a reason has ended the call.
C23_Witness ==
    /\ pc = "idle"
    /\ chunk_ack = Some(Ack(FALSE, None, None, Some(1)))
    /\ result = Err(<<"PutChunkRejected", "No reason given">>)

\* C27 (as stated): no put attempt carries slot version 0, whatever publish
\* calls came before it.
C27_NoAttemptCarriesVersionZero ==
    pc \in {"put", "acked"} => chunk.slot_version # 0

\* The version the client believes the own slot of the current call's
\* category to be at, an absent cache entry read as 0.
BelievedVersion == IF HasEntry(msg_id) THEN Entry(msg_id) ELSE 0

\* C28: the head of the loop (seeding included) leaves the believed version
\* of (category, own slot) as it was, and so does a step in which the call
\* returns an error before the attempt was acknowledged (the signing step
\* fails, or the put request ends in an error).
C28_ErrorBeforeAckKeepsBelievedVersion ==
    [][/\ (pc = "loop" /\ pc' = "put") => BelievedVersion' = BelievedVersion
       /\ (pc \in {"loop", "put"} /\ pc' = "idle" /\ result'.kind = "err")
             => BelievedVersion' = BelievedVersion]_vars

\* The call's second attempt, after a conflict that reported 4, ended in a
\* transport error: the cache entry is the 5 it was before the attempt.
C28_Witness ==
    /\ pc = "idle" /\ result = Err(<<"RetryTimeout">>)
    /\ attempts = 2 /\ PrevConflict /\ Unwrap(prev).ack.metadata = Meta(4)
    /\ chunk.slot_version = 5 /\ Entry(msg_id) = 5

\* C29: the cache entry never falls below the version it was advanced from
\* and is never 0 after an advance: right after an acknowledgment it is at
\* least the attempted version, right after a conflict correction at least
\* the reported version (the attempted one without metadata), and it is the
\* largest version when that version is the largest.
C29_AdvanceSaturates ==
    /\ pc = "acked" =>
          /\ Entry(msg_id) >= chunk.slot_version /\ Entry(msg_id) # 0
          /\ chunk.slot_version = U32_MAX => Entry(msg_id) = U32_MAX
    /\ (pc = "loop" /\ PrevConflict) =>
          LET from == IF IsSome(Unwrap(prev).ack.metadata)
                      THEN PrevMeta ELSE Unwrap(prev).slot_version
          IN /\ Entry(msg_id) >= from /\ Entry(msg_id) # 0
             /\ from = U32_MAX => Entry(msg_id) = U32_MAX

\* An attempt with the largest version has been acknowledged: the cache
\* entry is the largest version.
C29_Witness ==
    /\ pc = "acked" /\ chunk.slot_version = U32_MAX
    /\ Entry(msg_id) = U32_MAX

\* The chunk decodes to an envelope of epoch rc whose payload is not of the
\* given variant.
WrongVariant(data, rc, kind) ==
    /\ IsSome(data)
    /\ LET sm == read_next_signer_message(Unwrap(data))
       IN /\ IsSome(sm)
          /\ Unwrap(sm).reward_cycle = rc
          /\ Unwrap(sm).message.kind # kind
\* The fetched world with every such chunk taken out of its slot.
WithoutWrongVariant(world, rc, kind) ==
    [a \in DOMAIN world |->
        [s \in StoreSlots |->
            IF WrongVariant(world[a][s], rc, kind) THEN None ELSE world[a][s]]]

\* C24: get_dkg_packets and the two transaction fetches fail only when a
\* request to the session fails, never because of an envelope of the wrong
\* variant, and they return exactly what they would return had the slots
\* holding a wrong-variant envelope been empty: the other envelopes of the
\* batch are returned, in the same order.
C24_WrongVariantIsSkippedOthersReturned ==
    (fetch_result # NoResult /\ fetch_req.op \in {"dkg", "current", "next"}) =>
        /\ fetch_result.kind = "err" =>
              /\ fetch_result.err = <<"RetryTimeout">>
              /\ Len(fetch_log) <= Len(RequestsOf(fetch_req))
        /\ fetch_result.kind = "ok" =>
              fetch_result =
                CASE fetch_req.op = "dkg" ->
                       get_dkg_packets(signers_message_stackerdb_sessions, reward_cycle,
                           WithoutWrongVariant(fetch_req.world, reward_cycle, "Packet"),
                           fetch_req.signer_ids).result
                  [] fetch_req.op = "current" ->
                       get_current_transactions(signers_message_stackerdb_sessions,
                           signer_slot_id, reward_cycle,
                           WithoutWrongVariant(fetch_req.world, reward_cycle,
                                               "Transactions")).result
                  [] fetch_req.op = "next" ->
                       get_next_transactions(next_transaction_session, reward_cycle,
                           WithoutWrongVariant(fetch_req.world,
                               wrapping_add_1(reward_cycle), "Transactions"),
                           fetch_req.signer_ids).result

\* Signers [1, 2, 3] with a transaction list in slot 1 and packet 1 in slot
\* 2 of every DKG category: the six packets are returned.
C24_Witness ==
    /\ fetch_req.op = "dkg" /\ fetch_req.signer_ids = <<1, 2, 3>>
    /\ \A c \in 1..Len(PacketSlots) :
          LET db == fetch_req.world[stacker_db_contract(PacketSlots[c], 1)]
          IN /\ WrongVariant(db[1], 1, "Packet")
             /\ db[2] = Some(serialize_to_vec(SignerMessage(1, Packet(1))))
             /\ db[3] = None
    /\ fetch_result = OkValue(<<1, 1, 1, 1, 1, 1>>)

\* Signers [1, 2, 3] with a packet in slot 1 and lists in slots 2 and 3 of
\* the next epoch's store: the two lists are returned.
C24_WitnessTransactions ==
    /\ fetch_req.op = "next" /\ fetch_req.signer_ids = <<1, 2, 3>>
    /\ WrongVariant(fetch_req.world[stacker_db_contract("Transactions", 2)][1],
                    2, "Transactions")
    /\ fetch_result = OkValue(<<4, 5, 3>>)

\* C25: every put attempt carries the payload bytes of the call, the
\* client's own slot id and a signature over the chunk as it is sent, and
\* goes to the session of the call's category; inside a call the category
\* and the payload do not change, and from one attempt to the next the
\* chunk's payload, its slot id and the session stay the same.
C25_AttemptsDifferOnlyInVersion ==
    [][/\ pc' \in {"put", "acked"} =>
            /\ chunk'.data = message_bytes'
            /\ chunk'.slot_id = signer_slot_id'
            /\ chunk'.slot_version = slot_version'
            /\ chunk'.sig = Some(<<stacks_private_key', chunk'.slot_id,
                                   chunk'.slot_version, chunk'.data>>)
            /\ put_session' =
                  Some(StackerDBSession_new(
                          stacker_db_contract(msg_id', reward_cycle')))
       /\ pc # "idle" => (message_bytes' = message_bytes /\ msg_id' = msg_id)
       /\ (pc = "loop" /\ pc' = "put" /\ attempts >= 1) =>
            /\ chunk'.data = chunk.data
            /\ chunk'.slot_id = chunk.slot_id
            /\ put_session' = put_session]_vars

\* After a call that sent a packet, a call sending a transaction list is at
\* its second attempt: the list goes to the Transactions instance at the
\* corrected version 5.
C25_Witness ==
    /\ pc = "put" /\ attempts = 2
    /\ hist["DkgBegin"].calls = 1
    /\ msg_id = "Transactions"
    /\ chunk.data = serialize_to_vec(SignerMessage(1, Transactions(<<3>>)))
    /\ chunk.slot_version = 5
    /\ Unwrap(prev).slot_version = 1
    /\ put_session = Some(stacker_db_contract("Transactions", 1))

\* The message of the latest call, as a reader decodes its payload bytes.
SentMessage == Unwrap(read_next_signer_message(message_bytes)).message
\* The latest call was accepted and the latest fetch saw the store as that
\* call left it (another client may have written its own slot since).
FetchedAfterAcceptedSend ==
    /\ pc = "idle" /\ result.kind = "ok"
    /\ fetch_result # NoResult
    /\ fetch_req.world = stackerdb_chunks

\* C30: after send_message_with_retry had a DKG packet accepted,
\* get_dkg_packets with the client's slot id in the list returns that
\* packet; after it had a transaction list accepted,
\* get_current_transactions returns exactly that list.
C30_AcceptedMessageIsReadBack ==
    FetchedAfterAcceptedSend =>
        /\ (SentMessage.kind = "Packet" /\ fetch_req.op = "dkg"
              /\ \E i \in 1..Len(fetch_req.signer_ids) :
                    fetch_req.signer_ids[i] = signer_slot_id) =>
              /\ fetch_result.kind = "ok"
              /\ \E j \in 1..Len(fetch_result.value) :
                    fetch_result.value[j] = SentMessage.body[1]
        /\ (SentMessage.kind = "Transactions" /\ fetch_req.op = "current") =>
              fetch_result = OkValue(SentMessage.body)

\* Packet 1 was accepted at the second attempt by a store in use, and
\* get_dkg_packets for slots [3, 1] returns it in front of the peer's packet.
C30_Witness ==
    /\ FetchedAfterAcceptedSend
    /\ SentMessage = Packet(1) /\ attempts = 2
    /\ fetch_req.op = "dkg" /\ fetch_req.signer_ids = <<3, 1>>
    /\ fetch_result = OkValue(<<1, 2>>)

\* The list [3] was accepted after the list [1, 2], and
\* get_current_transactions returns [3].
C30_WitnessTransactions ==
    /\ FetchedAfterAcceptedSend
    /\ SentMessage = Transactions(<<3>>) /\ hist["Transactions"].calls = 2
    /\ fetch_req.op = "current"
    /\ fetch_result = OkValue(<<3>>)

\* The cache entry of (m, s): None when absent.
CacheAt(sv, m, s) ==
    IF m \in DOMAIN sv
    THEN IF s \in DOMAIN sv[m] THEN Some(sv[m][s]) ELSE None
    ELSE None

\* C26: a step changes no cache entry other than the one of (the category
\* of the publish call in progress, the client's own slot id), and a step
\* outside a publish call (a fetch operation among them) changes no cache
\* entry at all.
C26_OnlyOwnEntryOfTheCategoryChanges ==
    [][/\ \A m \in MessageSlotID_ALL, s \in StoreSlots :
             CacheAt(slot_versions', m, s) # CacheAt(slot_versions, m, s) =>
                 /\ pc # "idle"
                 /\ m = msg_id /\ s = signer_slot_id
       /\ fetch_result' # fetch_result => slot_versions' = slot_versions
       /\ DOMAIN slot_versions' \subseteq MessageSlotID_ALL]_vars

\* The cache holds 6 for the own DkgBegin slot and 5 for the own
\* Transactions slot, and a fetch was made while it held entries.
C26_Witness ==
    /\ HasEntry("DkgBegin") /\ Entry("DkgBegin") = 6
    /\ HasEntry("Transactions") /\ Entry("Transactions") = 5
    /\ fetch_req.op = "current" /\ fetch_result # NoResult
    /\ fetch_req.world = stackerdb_chunks

\* A publish call is in progress on a slot the store holds at the largest
\* version: no version is greater, so the store answers every put attempt
\* with a version conflict.
StoreAlwaysConflicts ==
    pc # "idle" /\ stackerdb[msg_id][signer_slot_id] = U32_MAX

\* C22: while the store answers every put attempt with a version conflict,
\* the call does not return (it stays inside the loop), every rejected
\* attempt is followed by a new attempt, and the attempt counter reaches its
\* cap: no number of attempts ends the call.
C22_ConflictsAreRetriedWithoutBound ==
    /\ [][StoreAlwaysConflicts => (StoreAlwaysConflicts' /\ result' = NoResult)]_vars
    /\ (StoreAlwaysConflicts /\ pc = "acked") ~> (pc = "put")
    /\ StoreAlwaysConflicts ~> (pc = "put" /\ attempts = MaxAttempts)

\* The call is at an attempt beyond the last one the counter tells apart,
\* every earlier attempt having ended in a version conflict.
C22_Witness ==
    /\ StoreAlwaysConflicts
    /\ pc = "put" /\ attempts = MaxAttempts
    /\ PrevConflict /\ PrevMeta = U32_MAX
    /\ chunk.slot_version = U32_MAX

\* The version the store holds for the own slot of the call's category.
OwnStoredVersion == stackerdb[msg_id][signer_slot_id]

\* C21: with a second instance writing to the same slot in any interleaving,
\* every accepted write raises the slot's stored version, so no version is
\* accepted twice; a stale write (its version not above the stored one)
\* leaves the store as it is and is acknowledged to its writer as a version
\* conflict; a rejected attempt is never returned but goes back to the head
\* of the loop with the cache corrected to the reported version plus one;
\* and a call returns Ok only for a chunk the store accepted.
C21_SharedSlotWritesAreOrderedAndConflictsSeen ==
    /\ [][/\ \A m \in PublishIds, s \in SignerSlotIds \cup PeerSlotIds :
                stackerdb'[m][s] # stackerdb[m][s] => stackerdb'[m][s] > stackerdb[m][s]
          /\ (pc = "put" /\ pc' = "acked") =>
                IF chunk.slot_version > OwnStoredVersion
                THEN /\ Unwrap(chunk_ack').accepted
                     /\ OwnStoredVersion' = chunk.slot_version
                ELSE /\ ~Unwrap(chunk_ack').accepted
                     /\ IsConflict(Unwrap(chunk_ack'))
                     /\ Unwrap(chunk_ack').metadata = Meta(OwnStoredVersion)
                     /\ stackerdb' = stackerdb
          /\ (pc = "acked" /\ pc' # "acked" /\ ~Unwrap(chunk_ack).accepted) =>
                /\ pc' = "loop" /\ result' = NoResult
                /\ Entry(msg_id)' =
                      saturating_add_1(Unwrap(Unwrap(chunk_ack).metadata).slot_version)]_vars
    /\ [](PublishAccepted =>
             /\ Unwrap(chunk_ack).accepted
             /\ result = Ok(Unwrap(chunk_ack))
             /\ OwnStoredVersion >= chunk.slot_version)

\* The client's second call sent version 2 after the other instance had had
\* 5 accepted: the attempt was rejected as a conflict reporting 5, and the
\* retry with 6 was accepted.
C21_Witness ==
    /\ PublishAccepted
    /\ hist[msg_id].calls = 2 /\ attempts = 2
    /\ PrevConflict /\ Unwrap(prev).slot_version = 2 /\ PrevMeta = 5
    /\ chunk.slot_version = 6 /\ OwnStoredVersion = 6

\* C33: in every reachable state the client holds exactly one session per
\* declared category, addressed to the category's store instance of the
\* client's epoch, and the look-ahead session; no step changes a session;
\* and no operation has taken a missing-session branch: publish has not
\* panicked and no fetch has returned NotConnected.
C33_SessionTableIsFixed ==
    /\ [](/\ DOMAIN signers_message_stackerdb_sessions = MessageSlotID_ALL
          /\ \A m \in MessageSlotID_ALL :
                signers_message_stackerdb_sessions[m] =
                    StackerDBSession_new(stacker_db_contract(m, reward_cycle))
          /\ next_transaction_session.msg_id = "Transactions"
          /\ pc # "panicked"
          /\ fetch_result # Err(<<"NotConnected">>)
          /\ IsSome(put_session) =>
                Unwrap(put_session) = signers_message_stackerdb_sessions[msg_id])
    /\ [][/\ signers_message_stackerdb_sessions' = signers_message_stackerdb_sessions
          /\ next_transaction_session' = next_transaction_session]_vars

\* Two publish calls have run, the latest accepted, and the encrypted state
\* has been fetched: every session lookup on the way found its session.
C33_Witness ==
    /\ pc = "idle" /\ result.kind = "ok" /\ TotalCalls = 2
    /\ fetch_req.op = "state" /\ fetch_result.kind = "ok"
    /\ Len(fetch_log) = 1

\* The epoch after the client's, in the width of a reward cycle.
NextEpoch == (reward_cycle + 1) % (U64_MAX + 1)

\* C32: for every reward cycle, the last one included, the look-ahead
\* session is addressed to the Transactions instance of the next epoch
\* computed with wrap-around, get_next_transactions asks that session, and
\* it returns the lists of exactly the envelopes tagged with that same
\* epoch, in slot order.
C32_LookAheadSessionAndFilterAgree ==
    /\ next_transaction_session =
          StackerDBSession_new(stacker_db_contract("Transactions", NextEpoch))
    /\ (fetch_req.op = "next" /\ fetch_result # NoResult) =>
          /\ fetch_log = <<Request(stacker_db_contract("Transactions", NextEpoch),
                                   fetch_req.signer_ids)>>
          /\ fetch_result.kind = "ok" =>
                IsConcat(fetch_result.value,
                         [i \in 1..Len(fetch_req.signer_ids) |->
                             Contribution("Transactions", NextEpoch,
                                          fetch_req.signer_ids[i], "Transactions")],
                         Len(fetch_req.signer_ids))

\* A client of the last reward cycle reads slots [1, 2, 3] of the instance
\* of epoch 0, whose two lists are tagged with 0, and gets both.
C32_Witness ==
    /\ reward_cycle = U64_MAX
    /\ next_transaction_session.reward_cycle = 0
    /\ fetch_req.op = "next" /\ fetch_req.signer_ids = <<1, 2, 3>>
    /\ fetch_req.world[stacker_db_contract("Transactions", 0)] = LookAheadStore(0, 0)
    /\ fetch_result = OkValue(<<0, 0, 0>>)

\* C31 (as stated): after send_message_with_retry had a state blob accepted,
\* get_encrypted_signer_state for the client's own slot id returns
\* Some(that blob).
C31_AcceptedStateIsReadBack ==
    (FetchedAfterAcceptedSend
       /\ SentMessage.kind = "EncryptedSignerState"
       /\ fetch_req.op = "state"
       /\ fetch_req.signer_ids = <<signer_slot_id>>) =>
        fetch_result = OkValue(Some(SentMessage.body))

\* What the read path does return: it takes the envelope's epoch for the
\* type prefix of a bare message, so the blob comes back as no state, as a
\* decode error or as other bytes, never as itself.
C31_EnvelopeIsNotReadAsState ==
    (FetchedAfterAcceptedSend
       /\ SentMessage.kind = "EncryptedSignerState"
       /\ fetch_req.op = "state"
       /\ fetch_req.signer_ids = <<signer_slot_id>>) =>
        /\ fetch_result # OkValue(Some(SentMessage.body))
        /\ fetch_result = get_encrypted_signer_state(
                              signers_message_stackerdb_sessions,
                              [a \in StoreSessions |->
                                  [s \in StoreSlots |-> Some(message_bytes)]],
                              signer_slot_id).result

\* The state written bare before the restart is read back as itself.
C31_BareStateIsReadBack ==
    /\ fetch_req.op = "state" /\ fetch_req.signer_ids = <<signer_slot_id>>
    /\ TotalCalls = 0
    /\ fetch_result = OkValue(Some(<<2>>))

====
